---- MODULE Spec2Model ----
(***************************************************************************)
(* Agent Sentinel: the request-governance pipeline of the reverse proxy.   *)
(*                                                                         *)
(* State: the key/value store (per tenant: the spend hash, its expiry and  *)
(* the optional limit key, plus the store's clock), the requests in        *)
(* flight (position in the middleware chain, reservation context,          *)
(* streaming reader), and the background accounting tasks handed to        *)
(* async.Run.                                                              *)
(*                                                                         *)
(* Money is counted in whole cost units (micro-dollars): CalculateCost     *)
(* with integer per-million prices gives integer micro-dollars.            *)
(***************************************************************************)
EXTENDS Integers, FiniteSets, Sequences, Bags, TLC

\* ------------------------------------------------------------------ bounds
NumClients == 2
MaxTicks == 2
MaxFrames == 2
MaxChunk == 2
MaxRuns == 3
MaxStores == 2
\* the keys that one SCAN iteration gives a second time, at most
MaxRepeats == 1
MaxStream == 5

\* ------------------------------------------------------- program constants
BucketSeconds == 60
WindowSeconds == 3600
ExpirySeconds == 7200
\* DEFAULT_SPEND_LIMIT of the deployment, in cost units
DefaultLimit == 4
StatusTooManyRequests == 429
StatusBadGateway == 502
StatusBadRequest == 400

\* ------------------------------------------------------------ input domains
Clients == 1..NumClients
\* the request followed through the proxy
Requests == {1}
Tenants == {"a", "b"}
\* the tenant header is absent
NoTenant == ""
\* estimated cost the rate-limit middleware computes for a request
EstimateSet == {2, 3}
\* limit:<tenant> is absent (NoLimit) or holds a number
NoLimit == -1
\* tenant "a" has no limit key (the default applies), limit:b holds 2
TenantLimits == [a |-> NoLimit, b |-> 2]
\* actual cost a direct caller passes to AdjustCost
ActualCosts == {2, 4}
\* seconds the store's clock may advance in one step
TickSteps == {30, 3630}
Pricing == [InputPrice |-> 1, OutputPrice |-> 1]
NoUsage == [InputTokens |-> 0, OutputTokens |-> 0, Found |-> FALSE]
UsageReports == {[InputTokens |-> 1, OutputTokens |-> 0, Found |-> TRUE],
                 [InputTokens |-> 0, OutputTokens |-> 2, Found |-> TRUE]}
UpstreamStatuses == {200, 404}

VARIABLES
    now,        \* the store's clock (TIME), seconds
    spend,      \* spend:<tenant>: minute bucket -> cost
    expireAt,   \* when spend:<tenant> expires, NoKey when the key is absent
    limitKey,   \* limit:<tenant>
    ticks,      \* clock advances so far
    req,        \* the proxied requests
    reader,     \* each request's StreamingResponseReader
    tasks,      \* functions handed to async.Run that have not run yet
    hist,       \* per request: what its accounting calls did, for the properties
    client,     \* direct callers of the accountant
    lastOp,     \* the last script the store executed, for the properties
    runner,     \* package async: the goroutines of Run, the channels, Wait
    server,     \* main: the HTTP server, its connections, gracefulShutdown
    vstore      \* the sidecar's vector store: embedding keys, prune goroutines

vars == <<now, spend, expireAt, limitKey, ticks, req, reader, tasks, hist,
          client, lastOp, runner, server, vstore>>
proxyVars == <<req, reader, tasks, hist>>
callerVars == <<client, lastOp>>

\* ------------------------------------------------------------ the store
NoKey == -1
EmptyHash == [f \in {} |-> 0]

HGet(h, f) == IF f \in DOMAIN h THEN h[f] ELSE 0

HINCRBYFLOAT(h, f, d) ==
    [x \in DOMAIN h \cup {f} |-> IF x = f THEN HGet(h, f) + d ELSE h[x]]

HDELAll(h, fs) == [x \in DOMAIN h \ fs |-> h[x]]

RECURSIVE SumOver(_, _)
SumOver(h, fs) ==
    IF fs = {} THEN 0
    ELSE LET f == CHOOSE x \in fs : TRUE IN h[f] + SumOver(h, fs \ {f})

\* math.floor(now / 60) * 60
MinuteBucket(t) == (t \div BucketSeconds) * BucketSeconds

MaxOf(a, b) == IF a >= b THEN a ELSE b

\* mutant: the check compares the estimate alone with the limit
CheckLimitScriptIgnoresSpend(h, exp, lim, t, estimatedCost, defaultLimit) ==
    LET minuteBucket == MinuteBucket(t)
        oneHourAgo == minuteBucket - WindowSeconds
        limit == IF lim # NoLimit THEN lim ELSE defaultLimit
        inWindow == {f \in DOMAIN h : f >= oneHourAgo}
        old == {f \in DOMAIN h : f < oneHourAgo}
        currentSpend == SumOver(h, inWindow)
        newSpend == currentSpend + estimatedCost
        allowed == estimatedCost <= limit
        remaining == MaxOf(0, limit - currentSpend)
        h1 == IF allowed THEN HINCRBYFLOAT(h, minuteBucket, estimatedCost) ELSE h
        exp1 == IF allowed THEN t + ExpirySeconds ELSE exp
        h2 == HDELAll(h1, old)
        exp2 == IF DOMAIN h2 = {} THEN NoKey ELSE exp1
    IN [allowed |-> allowed, currentSpend |-> currentSpend, limit |-> limit,
        remaining |-> remaining, hash |-> h2, expire |-> exp2]

\* mutant: HINCRBYFLOAT is outside the `if allowed`
CheckLimitScriptIncrAlways(h, exp, lim, t, estimatedCost, defaultLimit) ==
    LET minuteBucket == MinuteBucket(t)
        oneHourAgo == minuteBucket - WindowSeconds
        limit == IF lim # NoLimit THEN lim ELSE defaultLimit
        inWindow == {f \in DOMAIN h : f >= oneHourAgo}
        old == {f \in DOMAIN h : f < oneHourAgo}
        currentSpend == SumOver(h, inWindow)
        newSpend == currentSpend + estimatedCost
        allowed == newSpend <= limit
        remaining == MaxOf(0, limit - currentSpend)
        h1 == HINCRBYFLOAT(h, minuteBucket, estimatedCost)
        exp1 == IF allowed THEN t + ExpirySeconds ELSE exp
        h2 == HDELAll(h1, old)
        exp2 == IF DOMAIN h2 = {} THEN NoKey ELSE exp1
    IN [allowed |-> allowed, currentSpend |-> currentSpend, limit |-> limit,
        remaining |-> remaining, hash |-> h2, expire |-> exp2]

\* mutant: EXPIRE is outside the `if allowed`
CheckLimitScriptExpireAlways(h, exp, lim, t, estimatedCost, defaultLimit) ==
    LET minuteBucket == MinuteBucket(t)
        oneHourAgo == minuteBucket - WindowSeconds
        limit == IF lim # NoLimit THEN lim ELSE defaultLimit
        inWindow == {f \in DOMAIN h : f >= oneHourAgo}
        old == {f \in DOMAIN h : f < oneHourAgo}
        currentSpend == SumOver(h, inWindow)
        newSpend == currentSpend + estimatedCost
        allowed == newSpend <= limit
        remaining == MaxOf(0, limit - currentSpend)
        h1 == IF allowed THEN HINCRBYFLOAT(h, minuteBucket, estimatedCost) ELSE h
        exp1 == IF allowed \/ DOMAIN h # {} THEN t + ExpirySeconds ELSE exp
        h2 == HDELAll(h1, old)
        exp2 == IF DOMAIN h2 = {} THEN NoKey ELSE exp1
    IN [allowed |-> allowed, currentSpend |-> currentSpend, limit |-> limit,
        remaining |-> remaining, hash |-> h2, expire |-> exp2]

\* mutant: a request that brings the spend to the limit exactly is denied
CheckLimitScriptStrict(h, exp, lim, t, estimatedCost, defaultLimit) ==
    LET minuteBucket == MinuteBucket(t)
        oneHourAgo == minuteBucket - WindowSeconds
        limit == IF lim # NoLimit THEN lim ELSE defaultLimit
        inWindow == {f \in DOMAIN h : f >= oneHourAgo}
        old == {f \in DOMAIN h : f < oneHourAgo}
        currentSpend == SumOver(h, inWindow)
        newSpend == currentSpend + estimatedCost
        allowed == newSpend < limit
        remaining == MaxOf(0, limit - currentSpend)
        h1 == IF allowed THEN HINCRBYFLOAT(h, minuteBucket, estimatedCost) ELSE h
        exp1 == IF allowed THEN t + ExpirySeconds ELSE exp
        h2 == HDELAll(h1, old)
        exp2 == IF DOMAIN h2 = {} THEN NoKey ELSE exp1
    IN [allowed |-> allowed, currentSpend |-> currentSpend, limit |-> limit,
        remaining |-> remaining, hash |-> h2, expire |-> exp2]

\* mutant: the window starts 3600 s before the clock reading, not before the
\* current minute
CheckLimitScriptWindowFromNow(h, exp, lim, t, estimatedCost, defaultLimit) ==
    LET minuteBucket == MinuteBucket(t)
        oneHourAgo == t - WindowSeconds
        limit == IF lim # NoLimit THEN lim ELSE defaultLimit
        inWindow == {f \in DOMAIN h : f >= oneHourAgo}
        old == {f \in DOMAIN h : f < oneHourAgo}
        currentSpend == SumOver(h, inWindow)
        newSpend == currentSpend + estimatedCost
        allowed == newSpend <= limit
        remaining == MaxOf(0, limit - currentSpend)
        h1 == IF allowed THEN HINCRBYFLOAT(h, minuteBucket, estimatedCost) ELSE h
        exp1 == IF allowed THEN t + ExpirySeconds ELSE exp
        h2 == HDELAll(h1, old)
        exp2 == IF DOMAIN h2 = {} THEN NoKey ELSE exp1
    IN [allowed |-> allowed, currentSpend |-> currentSpend, limit |-> limit,
        remaining |-> remaining, hash |-> h2, expire |-> exp2]

\* mutant: old buckets are deleted only when the request is allowed
CheckLimitScriptCleanupOnAllow(h, exp, lim, t, estimatedCost, defaultLimit) ==
    LET minuteBucket == MinuteBucket(t)
        oneHourAgo == minuteBucket - WindowSeconds
        limit == IF lim # NoLimit THEN lim ELSE defaultLimit
        inWindow == {f \in DOMAIN h : f >= oneHourAgo}
        old == {f \in DOMAIN h : f < oneHourAgo}
        currentSpend == SumOver(h, inWindow)
        newSpend == currentSpend + estimatedCost
        allowed == newSpend <= limit
        remaining == MaxOf(0, limit - currentSpend)
        h1 == IF allowed THEN HINCRBYFLOAT(h, minuteBucket, estimatedCost) ELSE h
        exp1 == IF allowed THEN t + ExpirySeconds ELSE exp
        h2 == IF allowed THEN HDELAll(h1, old) ELSE h1
        exp2 == IF DOMAIN h2 = {} THEN NoKey ELSE exp1
    IN [allowed |-> allowed, currentSpend |-> currentSpend, limit |-> limit,
        remaining |-> remaining, hash |-> h2, expire |-> exp2]

\* checkLimitAndIncrementLUA, executed by the store as one unit.
\* h, exp: the hash spend:<tenant> and its expiry; lim: limit:<tenant>.
CheckLimitScript(h, exp, lim, t, estimatedCost, defaultLimit) ==
    LET minuteBucket == MinuteBucket(t)
        oneHourAgo == minuteBucket - WindowSeconds
        limit == IF lim # NoLimit THEN lim ELSE defaultLimit
        inWindow == {f \in DOMAIN h : f >= oneHourAgo}
        old == {f \in DOMAIN h : f < oneHourAgo}
        currentSpend == SumOver(h, inWindow)
        newSpend == currentSpend + estimatedCost
        allowed == newSpend <= limit
        remaining == MaxOf(0, limit - currentSpend)
        h1 == IF allowed THEN HINCRBYFLOAT(h, minuteBucket, estimatedCost) ELSE h
        exp1 == IF allowed THEN t + ExpirySeconds ELSE exp
        h2 == HDELAll(h1, old)
        exp2 == IF DOMAIN h2 = {} THEN NoKey ELSE exp1
    IN [allowed |-> allowed, currentSpend |-> currentSpend, limit |-> limit,
        remaining |-> remaining, hash |-> h2, expire |-> exp2]

\* mutant: the adjust script adds the delta and leaves the expiry alone
AdjustScriptNoExpire(h, exp, t, estimate, actual) ==
    LET minuteBucket == MinuteBucket(t)
        adjustment == actual - estimate
    IN IF adjustment # 0
       THEN [hash |-> HINCRBYFLOAT(h, minuteBucket, adjustment),
             expire |-> exp]
       ELSE [hash |-> h, expire |-> exp]

\* mutant: the adjust script adds the actual cost on top of the estimate
AdjustScriptAddsActual(h, exp, t, estimate, actual) ==
    LET minuteBucket == MinuteBucket(t)
        adjustment == actual
    IN IF adjustment # 0
       THEN [hash |-> HINCRBYFLOAT(h, minuteBucket, adjustment),
             expire |-> t + ExpirySeconds]
       ELSE [hash |-> h, expire |-> exp]

\* mutant: the adjust script stores the delta in the bucket (HSET)
AdjustScriptOverwrites(h, exp, t, estimate, actual) ==
    LET minuteBucket == MinuteBucket(t)
        adjustment == actual - estimate
    IN IF adjustment # 0
       THEN [hash |-> [x \in DOMAIN h \cup {minuteBucket} |->
                          IF x = minuteBucket THEN adjustment ELSE h[x]],
             expire |-> t + ExpirySeconds]
       ELSE [hash |-> h, expire |-> exp]

\* adjustCostLUA, executed by the store as one unit.
AdjustScript(h, exp, t, estimate, actual) ==
    LET minuteBucket == MinuteBucket(t)
        adjustment == actual - estimate
    IN IF adjustment # 0
       THEN [hash |-> HINCRBYFLOAT(h, minuteBucket, adjustment),
             expire |-> t + ExpirySeconds]
       ELSE [hash |-> h, expire |-> exp]

\* the tenant's current spend: GetSpend
GetSpend(tn) ==
    LET oneHourAgo == MinuteBucket(now) - WindowSeconds
    IN SumOver(spend[tn], {f \in DOMAIN spend[tn] : f >= oneHourAgo})

\* ------------------------------------------------------------ the accountant
\* no CheckLimitResult was returned
NoResult == [Allowed |-> FALSE, CurrentSpend |-> -1, Limit |-> -1, Remaining |-> -1]

\* mutant: the fail-open decision reports nothing remaining
FailOpenResultNoRemaining(defaultLimit) ==
    [Allowed |-> TRUE, CurrentSpend |-> 0, Limit |-> defaultLimit,
     Remaining |-> 0]

FailOpenResult(defaultLimit) ==
    [Allowed |-> TRUE, CurrentSpend |-> 0, Limit |-> defaultLimit,
     Remaining |-> defaultLimit]

\* mutant: the script's first result is not looked at
CheckLimitAndIncrementIgnoresDenial(tn, estimatedCost, ok) ==
    IF ok
    THEN LET s == CheckLimitScript(spend[tn], expireAt[tn], limitKey[tn], now,
                                   estimatedCost, DefaultLimit)
         IN [result |-> [Allowed |-> TRUE, CurrentSpend |-> s.currentSpend,
                         Limit |-> s.limit, Remaining |-> s.remaining],
             err |-> FALSE, hash |-> s.hash, expire |-> s.expire]
    ELSE [result |-> FailOpenResult(DefaultLimit), err |-> FALSE,
          hash |-> spend[tn], expire |-> expireAt[tn]]

\* mutant: a store error denies the request
CheckLimitAndIncrementFailClosed(tn, estimatedCost, ok) ==
    IF ok
    THEN LET s == CheckLimitScript(spend[tn], expireAt[tn], limitKey[tn], now,
                                   estimatedCost, DefaultLimit)
         IN [result |-> [Allowed |-> s.allowed, CurrentSpend |-> s.currentSpend,
                         Limit |-> s.limit, Remaining |-> s.remaining],
             err |-> FALSE, hash |-> s.hash, expire |-> s.expire]
    ELSE [result |-> [FailOpenResult(DefaultLimit) EXCEPT !.Allowed = FALSE],
          err |-> FALSE, hash |-> spend[tn], expire |-> expireAt[tn]]

\* RateLimiter.CheckLimitAndIncrement; ok: runScript returned no error.
\* Gives the CheckLimitResult, the error returned (nil on every path) and the
\* store's hash and expiry afterwards.
CheckLimitAndIncrement(tn, estimatedCost, ok) ==
    IF ok
    THEN LET s == CheckLimitScript(spend[tn], expireAt[tn], limitKey[tn], now,
                                   estimatedCost, DefaultLimit)
         IN [result |-> [Allowed |-> s.allowed, CurrentSpend |-> s.currentSpend,
                         Limit |-> s.limit, Remaining |-> s.remaining],
             err |-> FALSE, hash |-> s.hash, expire |-> s.expire]
    ELSE [result |-> FailOpenResult(DefaultLimit), err |-> FALSE,
          hash |-> spend[tn], expire |-> expireAt[tn]]

\* the *RateLimiter a call is made on: nil, or a limiter with or without a
\* store client
NilLimiter == [nil |-> TRUE, client |-> FALSE]
Limiters == {NilLimiter, [nil |-> FALSE, client |-> FALSE],
             [nil |-> FALSE, client |-> TRUE]}

\* RateLimiter.CheckLimitAndIncrement called on the receiver rl. With r == nil
\* the fail-open branch is entered and reads r.defaultLimit through the nil
\* pointer: the call panics. A limiter without a client fails open as one
\* whose runScript fails.
CheckLimitAndIncrementOn(rl, tn, estimatedCost, ok) ==
    IF rl.nil
    THEN [panic |-> TRUE, result |-> NoResult, err |-> FALSE,
          hash |-> spend[tn], expire |-> expireAt[tn]]
    ELSE LET c == CheckLimitAndIncrement(tn, estimatedCost, ok /\ rl.client)
         IN [panic |-> FALSE, result |-> c.result, err |-> c.err,
             hash |-> c.hash, expire |-> c.expire]

\* mutant: AdjustCost hands the store's error to its caller
AdjustCostReturnsError(tn, estimate, actual, ok) ==
    LET s == IF ok THEN AdjustScript(spend[tn], expireAt[tn], now, estimate, actual)
             ELSE [hash |-> spend[tn], expire |-> expireAt[tn]]
    IN [hash |-> s.hash, expire |-> s.expire, err |-> ~ok]

\* RateLimiter.AdjustCost; ok: runScriptErr returned no error.
\* Gives the store's hash and expiry afterwards and the error returned (nil
\* on every path).
AdjustCost(tn, estimate, actual, ok) ==
    LET s == IF ok THEN AdjustScript(spend[tn], expireAt[tn], now, estimate, actual)
             ELSE [hash |-> spend[tn], expire |-> expireAt[tn]]
    IN [hash |-> s.hash, expire |-> s.expire, err |-> FALSE]

\* RateLimiter.RefundEstimate: the adjust script with actual = 0.
RefundEstimate(tn, estimate, ok) ==
    LET s == IF ok THEN AdjustScript(spend[tn], expireAt[tn], now, estimate, 0)
             ELSE [hash |-> spend[tn], expire |-> expireAt[tn]]
    IN [hash |-> s.hash, expire |-> s.expire, err |-> FALSE]

\* ratelimit.CalculateCost, in cost units
CalculateCost(inputTokens, outputTokens, pricing) ==
    inputTokens * pricing.InputPrice + outputTokens * pricing.OutputPrice

\* ------------------------------------------------- the bounded async runner
\* ASYNC_OP_LIMIT of the deployment: the capacity of asyncSemaphore
AsyncLimit == 2
\* the functions handed to Run, numbered in the order of the calls
Funcs == 1..MaxRuns

\* After Init: both channels are empty, no goroutine exists, Wait has not
\* been called. go[g]: where the goroutine of the g-th Run call stands;
\* calls[g]: how often its fn was called. wait.before and wait.unfinished
\* record, for the properties, the functions handed to Run before Wait was
\* called and how many of them had not returned when Wait returned;
\* queued records the Run calls made while the semaphore was full.
InitRunner ==
    [go |-> [g \in Funcs |-> "none"],
     calls |-> [g \in Funcs |-> 0],
     queued |-> {},
     completion |-> 0,
     wait |-> [pc |-> "idle", inFlight |-> 0, completed |-> 0, result |-> 0,
               before |-> {}, unfinished |-> 0]]

\* len(asyncSemaphore): the goroutines that have sent and not yet received
SemaphoreLen == Cardinality({g \in Funcs : runner.go[g] \in {"running", "returned"}})

\* QueueDepth
QueueDepth == SemaphoreLen

\* the functions handed to Run whose fn has not returned
Unfinished(gs) == {g \in gs : runner.go[g] \in {"spawned", "running"}}

restVars == <<now, spend, expireAt, limitKey, ticks, req, reader, tasks, hist,
                client, lastOp, server, vstore>>

\* mutant: Run drops the function when no slot is free
RunDropsWhenFull(g) ==
    /\ runner.go[g] = "none"
    /\ \A h \in Funcs : h < g => runner.go[h] # "none"
    /\ runner' = [runner EXCEPT !.go[g] = IF SemaphoreLen < AsyncLimit
                                          THEN "spawned" ELSE "done",
                                !.queued = IF SemaphoreLen = AsyncLimit
                                           THEN @ \cup {g} ELSE @]
    /\ UNCHANGED restVars

\* Run(fn): starts the goroutine and returns
Run(g) ==
    /\ runner.go[g] = "none"
    /\ \A h \in Funcs : h < g => runner.go[h] # "none"
    /\ runner' = [runner EXCEPT !.go[g] = "spawned",
                                !.queued = IF SemaphoreLen = AsyncLimit
                                           THEN @ \cup {g} ELSE @]
    /\ UNCHANGED restVars

\* mutant: the goroutine calls fn without sending on the semaphore first
AcquireUnbounded(g) ==
    /\ runner.go[g] = "spawned"
    /\ runner' = [runner EXCEPT !.go[g] = "running", !.calls[g] = @ + 1]
    /\ UNCHANGED restVars

\* the goroutine's send on asyncSemaphore goes through, and fn is called
Acquire(g) ==
    /\ runner.go[g] = "spawned"
    /\ SemaphoreLen < AsyncLimit
    /\ runner' = [runner EXCEPT !.go[g] = "running", !.calls[g] = @ + 1]
    /\ UNCHANGED restVars

\* fn returns
Return(g) ==
    /\ runner.go[g] = "running"
    /\ runner' = [runner EXCEPT !.go[g] = "returned"]
    /\ UNCHANGED restVars

\* the deferred function receives from asyncSemaphore
Release(g) ==
    /\ runner.go[g] = "returned"
    /\ runner' = [runner EXCEPT !.go[g] = "released"]
    /\ UNCHANGED restVars

\* the deferred function's select: a send on asyncCompletion, or nothing
\* when the channel is full
Complete(g) ==
    /\ runner.go[g] = "released"
    /\ runner' = [runner EXCEPT !.go[g] = "done",
                                !.completion = IF @ < 2 * AsyncLimit THEN @ + 1 ELSE @]
    /\ UNCHANGED restVars

\* Wait(ctx) up to its loop: inFlight := len(asyncSemaphore), 0 returned
\* when that is 0
WaitCall ==
    /\ runner.wait.pc = "idle"
    /\ LET inFlight == SemaphoreLen
           before == {g \in Funcs : runner.go[g] # "none"}
       IN runner' = [runner EXCEPT !.wait =
             [pc |-> IF inFlight = 0 THEN "returned" ELSE "draining",
              inFlight |-> inFlight, completed |-> 0, result |-> 0,
              before |-> before,
              unfinished |-> IF inFlight = 0 THEN Cardinality(Unfinished(before))
                             ELSE 0]]
    /\ UNCHANGED restVars

\* Wait's loop receives from asyncCompletion; 0 is returned when completed
\* reaches inFlight
WaitReceive ==
    /\ runner.wait.pc = "draining"
    /\ runner.completion > 0
    /\ LET completed == runner.wait.completed + 1
           over == completed >= runner.wait.inFlight
       IN runner' = [runner EXCEPT
             !.completion = @ - 1,
             !.wait.completed = completed,
             !.wait.pc = IF over THEN "returned" ELSE "draining",
             !.wait.unfinished = IF over
                                 THEN Cardinality(Unfinished(runner.wait.before))
                                 ELSE @]
    /\ UNCHANGED restVars

\* Wait's loop finds ctx done: inFlight - completed is returned
WaitDeadline ==
    /\ runner.wait.pc = "draining"
    /\ runner' = [runner EXCEPT
          !.wait.pc = "expired",
          !.wait.result = runner.wait.inFlight - runner.wait.completed,
          !.wait.unfinished = Cardinality(Unfinished(runner.wait.before))]
    /\ UNCHANGED restVars

\* ------------------------------------------------- main and its shutdown
\* the connections the server may accept
Conns == Clients

\* After main has started the server: the listener accepts, no connection is
\* open, main is inside ListenAndServe, gracefulShutdown waits for a signal.
\* conn[c]: "none", "active" (a request is being served) or "closed";
\* shutdown: where the gracefulShutdown goroutine stands; ctxDone: the 30 s
\* of shutdownCtx have passed; exited: the process has ended
InitServer ==
    [accepting |-> TRUE, conn |-> [c \in Conns |-> "none"], main |-> "serving",
     shutdown |-> "signal", ctxDone |-> FALSE, exited |-> FALSE]

serverOnly == <<now, spend, expireAt, limitKey, ticks, req, reader, tasks, hist,
                client, lastOp, runner, vstore>>

\* the requests still being served
ActiveConns == {c \in Conns : server.conn[c] = "active"}

\* the server accepts a connection and starts serving its request
Accept(c) ==
    /\ ~server.exited /\ server.accepting
    /\ server.conn[c] = "none"
    /\ server' = [server EXCEPT !.conn[c] = "active"]
    /\ UNCHANGED serverOnly

\* a handler hands a function to async.Run
HandlerRun(g) ==
    /\ ~server.exited
    /\ ActiveConns # {}
    /\ Run(g)

\* a request has been served
Finish(c) ==
    /\ ~server.exited
    /\ server.conn[c] = "active"
    /\ server' = [server EXCEPT !.conn[c] = "closed"]
    /\ UNCHANGED serverOnly

\* the goroutines of Run, while the process lives
Goroutine(g) ==
    /\ ~server.exited
    /\ (Acquire(g) \/ Return(g) \/ Release(g) \/ Complete(g))

\* gracefulShutdown: SIGINT or SIGTERM arrives, shutdownCtx is created
Signal ==
    /\ ~server.exited
    /\ server.shutdown = "signal"
    /\ server' = [server EXCEPT !.shutdown = "shutdown"]
    /\ UNCHANGED serverOnly

\* the 30 s of shutdownCtx pass
Deadline ==
    /\ ~server.exited
    /\ server.shutdown # "signal" /\ ~server.ctxDone
    /\ server' = [server EXCEPT !.ctxDone = TRUE]
    /\ UNCHANGED serverOnly

\* the call of server.Shutdown as it would be if main did not go on after
\* ListenAndServe: the process then outlives gracefulShutdown
ShutdownBeginsMainStays ==
    /\ ~server.exited
    /\ server.shutdown = "shutdown"
    /\ server' = [server EXCEPT !.shutdown = "polling", !.accepting = FALSE]
    /\ UNCHANGED serverOnly

\* server.Shutdown is called: the listener is closed, and ListenAndServe
\* returns ErrServerClosed to main at once
ShutdownBegins ==
    /\ ~server.exited
    /\ server.shutdown = "shutdown"
    /\ server' = [server EXCEPT !.shutdown = "polling", !.accepting = FALSE,
                                !.main = "returned"]
    /\ UNCHANGED serverOnly

\* server.Shutdown returns: no request is being served any more, or
\* shutdownCtx is done
ShutdownReturns ==
    /\ ~server.exited
    /\ server.shutdown = "polling"
    /\ ActiveConns = {} \/ server.ctxDone
    /\ server' = [server EXCEPT !.shutdown = "drain"]
    /\ UNCHANGED serverOnly

\* gracefulShutdown calls async.Wait(shutdownCtx)
DrainCall ==
    /\ ~server.exited
    /\ server.shutdown = "drain"
    /\ WaitCall

\* Wait's loop inside gracefulShutdown
DrainReceive ==
    /\ ~server.exited
    /\ WaitReceive

DrainDeadline ==
    /\ ~server.exited
    /\ server.ctxDone
    /\ WaitDeadline

\* Wait has returned; shutdownTracing is called and gracefulShutdown ends
DrainEnds ==
    /\ ~server.exited
    /\ server.shutdown = "drain"
    /\ runner.wait.pc \in {"returned", "expired"}
    /\ server' = [server EXCEPT !.shutdown = "complete"]
    /\ UNCHANGED serverOnly

\* main returns after ListenAndServe gave ErrServerClosed: the process ends
\* and every goroutine with it
MainReturns ==
    /\ ~server.exited
    /\ server.main = "returned"
    /\ server' = [server EXCEPT !.exited = TRUE]
    /\ UNCHANGED serverOnly

\* ------------------------------------------- the sidecar's vector store
\* Strings are sequences of byte values. Tenant identifiers come from the
\* request header as they are: "a", "b", "a:0" and "?"
TenantA == <<97>>
TenantB == <<98>>
TenantA0 == <<97, 58, 48>>
TenantAny == <<63>>
StoreTenants == {TenantA, TenantB, TenantA0, TenantAny}
\* redisKeyPrefix, "loop:"
RedisKeyPrefix == <<108, 111, 111, 112, 58>>
\* the keep setting of the store
Keep == 1

\* time.Now().UnixNano() in decimal at the t-th call: digits of one width,
\* the first of them "1"
Nanos(t) == <<49, 48 + t>>

\* fmt.Sprintf("%s%s:%d", redisKeyPrefix, tenantID, time.Now().UnixNano())
EmbeddingKey(tenantID, t) == RedisKeyPrefix \o tenantID \o <<58>> \o Nanos(t)

\* fmt.Sprintf("%s%s:*", redisKeyPrefix, tenantID)
ScanPattern(tenantID) == RedisKeyPrefix \o tenantID \o <<58, 42>>

\* SCAN ... MATCH: the store's glob matching, "*" for any bytes and "?" for
\* any one byte (classes and escapes do not occur in the tenants above)
RECURSIVE GlobMatch(_, _)
GlobMatch(pat, str) ==
    IF pat = << >> THEN str = << >>
    ELSE IF Head(pat) = 42
    THEN \E i \in 0..Len(str) : GlobMatch(Tail(pat), SubSeq(str, i + 1, Len(str)))
    ELSE /\ str # << >>
         /\ Head(pat) = 63 \/ Head(pat) = Head(str)
         /\ GlobMatch(Tail(pat), Tail(str))

\* the order of sort.Strings: byte by byte, a prefix before its extensions
RECURSIVE StringLess(_, _)
StringLess(a, b) ==
    IF b = << >> THEN FALSE
    ELSE IF a = << >> THEN TRUE
    ELSE IF Head(a) # Head(b) THEN Head(a) < Head(b)
    ELSE StringLess(Tail(a), Tail(b))

\* keys[:len(keys)-keep] of the sorted keys; keys is the list SCAN returned,
\* kept as a bag: a key it returned twice is in the list twice
OldestKeys(keys, keep) ==
    {k \in DOMAIN keys :
        BagCardinality([j \in {x \in DOMAIN keys : StringLess(x, k)} |-> keys[j]])
           < BagCardinality(keys) - keep}

\* After NewVectorStore: no key. keys: the hashes, each with its key, its
\* tenant_id field and the time to live EXPIRE has given it (0: none);
\* clock: calls of StoreEmbedding so far; stores: the StoreEmbedding calls
\* at work, before their HSET or before their EXPIRE; prunes: the pruneOldEmbeddings
\* goroutines at work, each with the keys that were in the store when it
\* began its SCAN (start) and those written since (added); deleted records,
\* for the properties, the keys the last DEL of a prune deleted and the
\* tenant the prune ran for
InitVStore ==
    [keys |-> {}, clock |-> 0, stores |-> {}, prunes |-> {}, deleted |-> {}]

vstoreOnly == <<now, spend, expireAt, limitKey, ticks, req, reader, tasks, hist,
                client, lastOp, runner, server>>

\* VectorStore.StoreEmbedding for one tenant, with an embedding of the
\* store's dimension, up to its HSET: the key is made from the clock. Every
\* call runs in a goroutine of its own beside the other calls and the
\* prunes.
StoreEmbedding(tenantID) ==
    /\ vstore.clock < MaxStores
    /\ LET t == vstore.clock + 1
       IN vstore' = [vstore EXCEPT
             !.clock = t,
             !.stores = @ \cup {[id |-> t, tenant |-> tenantID, pc |-> "hset",
                                 key |-> EmbeddingKey(tenantID, t)]}]
    /\ UNCHANGED vstoreOnly

\* StoreEmbedding, its HSET; ok: HSET succeeded. The hash is in the store
\* with no time to live; after an error the call returns.
StoreHSet(c, ok) ==
    /\ c \in vstore.stores /\ c.pc = "hset"
    /\ vstore' = IF ok
                 THEN [vstore EXCEPT
                         !.keys = @ \cup {[key |-> c.key, tenant |-> c.tenant,
                                           ttl |-> 0]},
                         !.stores = (@ \ {c}) \cup {[c EXCEPT !.pc = "expire"]},
                         !.prunes = {[p EXCEPT !.added =
                                         IF p.pc = "scan" THEN @ \cup {c.key}
                                         ELSE @] : p \in @}]
                 ELSE [vstore EXCEPT !.stores = @ \ {c}]
    /\ UNCHANGED vstoreOnly

\* StoreEmbedding from its EXPIRE on; ok: EXPIRE returned no error. The key,
\* if it is still there, gets its time to live (ttl: the place of this
\* EXPIRE among those of the hashes in the store) and, with keep > 0, a
\* prune goroutine is started, whose SCAN begins; after an error the call
\* returns, the hash stays as HSET wrote it and no prune is started.
StoreExpire(c, ok) ==
    /\ c \in vstore.stores /\ c.pc = "expire"
    /\ LET last == IF \E h \in vstore.keys : h.ttl > 0
                   THEN CHOOSE n \in {h.ttl : h \in vstore.keys} :
                           \A h \in vstore.keys : h.ttl <= n
                   ELSE 0
           keys == IF ok
                   THEN {IF h.key = c.key THEN [h EXCEPT !.ttl = last + 1] ELSE h :
                            h \in vstore.keys}
                   ELSE vstore.keys
       IN vstore' = [vstore EXCEPT
             !.stores = @ \ {c},
             !.keys = keys,
             !.prunes = IF ok /\ Keep > 0
                        THEN @ \cup {[id |-> c.id, tenant |-> c.tenant,
                                      pc |-> "scan",
                                      start |-> {h.key : h \in keys},
                                      added |-> {}, toDelete |-> {}]}
                        ELSE @]
    /\ UNCHANGED vstoreOnly

\* the store drops a hash whose time to live has run out (the time between
\* two calls is not bounded). Every EXPIRE gives the same time to live,
\* counted from the EXPIRE, so the hashes run out in the order of their
\* EXPIREs, whatever the order of their HSETs.
KeyExpires(h) ==
    /\ h \in vstore.keys /\ h.ttl > 0
    /\ \A x \in vstore.keys : x.ttl > 0 => x.ttl >= h.ttl
    /\ vstore' = [vstore EXCEPT !.keys = @ \ {h}]
    /\ UNCHANGED vstoreOnly

\* pruneOldEmbeddings up to the delete. The SCAN cursor is read to its end,
\* reply by reply, while other calls write and delete; keys is the list the
\* replies made and ok says that iter.Err() is nil. Every key on the list
\* matches the tenant's pattern and was in the store at some time of the
\* iteration; a key that was there from its beginning to its end is on the
\* list; SCAN may give a key it gave before, so `twice` of them are on the
\* list two times. After an error the goroutine returns; so it does with no
\* more than keep keys; otherwise the oldest of the list in string order
\* are to be deleted.
PruneScan(p, keys, twice, ok) ==
    /\ p \in vstore.prunes /\ p.pc = "scan"
    /\ twice \subseteq keys /\ Cardinality(twice) <= MaxRepeats
    /\ keys \subseteq {k \in p.start \cup p.added :
                          GlobMatch(ScanPattern(p.tenant), k)}
    /\ IF ok
       THEN \A h \in vstore.keys :
               (h.key \in p.start /\ GlobMatch(ScanPattern(p.tenant), h.key))
                  => h.key \in keys
       ELSE keys = {}
    /\ LET list == [k \in keys |-> IF k \in twice THEN 2 ELSE 1]
       IN vstore' = [vstore EXCEPT !.prunes =
             IF ~ok \/ BagCardinality(list) <= Keep THEN @ \ {p}
             ELSE (@ \ {p}) \cup {[p EXCEPT !.pc = "del", !.start = {},
                                            !.added = {},
                                            !.toDelete = OldestKeys(list, Keep)]}]
    /\ UNCHANGED vstoreOnly

\* pruneOldEmbeddings: DEL of the collected keys; ok: DEL succeeded (its
\* error is logged and nothing else)
PruneDelete(p, ok) ==
    /\ p \in vstore.prunes /\ p.pc = "del"
    /\ LET gone == IF ok THEN {h \in vstore.keys : h.key \in p.toDelete} ELSE {}
       IN vstore' = [vstore EXCEPT
             !.keys = @ \ gone,
             !.prunes = @ \ {p},
             !.deleted = {[by |-> p.tenant, key |-> h.key,
                           tenant |-> h.tenant] : h \in gone}]
    /\ UNCHANGED vstoreOnly

\* ------------------------------------------------------------ requests
NonJSON == [json |-> FALSE, error |-> FALSE, usage |-> NoUsage]
NoBody == [json |-> FALSE, error |-> TRUE, usage |-> NoUsage]
\* decoded non-streaming response bodies: not JSON, or a JSON object with or
\* without an "error" field and with or without a usage report
Bodies == {NonJSON} \cup
          [json : {TRUE}, error : BOOLEAN, usage : UsageReports \cup {NoUsage}]
\* SSE frames: the [DONE] terminator, or a JSON chunk
DoneFrame == [done |-> TRUE, error |-> FALSE, usage |-> NoUsage]
NoFrame == [done |-> FALSE, error |-> FALSE, usage |-> NoUsage]
Frames == {DoneFrame} \cup
          ([done : {FALSE}, error : BOOLEAN, usage : UsageReports \cup {NoUsage}]
             \ {NoFrame})

\* Request bodies, one element per byte group: the braces, white space
\* ("ws"), the "model" member, the "messages" key, a user message ("u") and
\* the system message that carries the hint ("s").
CompactBody == <<"{", "messages", "u", "}">>
ReqBodies == {CompactBody,
              <<"{", "ws", "messages", "u", "ws", "}">>,
              <<"{", "model", "ws", "messages", "u", "u", "}">>}
Methods == {"POST", "GET"}
\* LOOP_INTERVENTION_HINT
InterventionHint == "hint"

\* json.Unmarshal into map[string]any: white space and the order of the
\* members are gone
Unmarshal(b) ==
    [model |-> \E i \in 1..Len(b) : b[i] = "model",
     messages |-> SelectSeq(b, LAMBDA t : t \in {"u", "s"})]

\* Provider.InjectHint (OpenAI): a system message with the hint is put in
\* front of the messages; false when the hint is empty
InjectHint(data, hint) ==
    IF hint = "" THEN [ok |-> FALSE, data |-> data]
    ELSE [ok |-> TRUE, data |-> [data EXCEPT !.messages = <<"s">> \o @]]

\* json.Marshal of the map: members in the order of their keys, no white
\* space
Marshal(data) ==
    <<"{", "messages">> \o data.messages
       \o (IF data.model THEN <<"model">> ELSE << >>) \o <<"}">>

\* strconv.Itoa: the decimal digits
Itoa(n) == IF n < 10 THEN <<n>> ELSE <<n \div 10, n % 10>>

\* loop: where the request stands with the loop-detection middleware: "off"
\* (not installed), "pending", or how its pass ended; reqBody: the request
\* body the next handler reads, as received or rewritten with the hint
\* method: the request's method; origBytes: the body as the client sent it;
\* reqBytes, contentLength, clHeader: r.Body, r.ContentLength and the
\* Content-Length header as the next handler finds them
InitReq(tn, e) ==
    [pc |-> "new", tenant |-> tn, est |-> e, status |-> 0, result |-> NoResult,
     headers |-> FALSE, ctxTenant |-> "", ctxEstimate |-> 0, body |-> NoBody,
     loop |-> "off", reqBody |-> "received",
     method |-> "POST", origBytes |-> CompactBody, reqBytes |-> CompactBody,
     contentLength |-> Len(CompactBody), clHeader |-> Itoa(Len(CompactBody))]

\* the request as it arrives with the method m and the body b
ArrivingReq(tn, e, m, b) ==
    [InitReq(tn, e) EXCEPT !.method = m, !.origBytes = b, !.reqBytes = b,
                           !.contentLength = Len(b), !.clHeader = Itoa(Len(b))]
InitReader ==
    [usage |-> NoUsage, hasError |-> FALSE, finalized |-> FALSE,
     buffer |-> NoFrame, tenantID |-> "", estimate |-> 0, frames |-> 0]
InitHist ==
    [reserveErr |-> FALSE, added |-> FALSE, storeFail |-> FALSE, streamed |-> FALSE,
     nAdjust |-> 0, nRefund |-> 0, net |-> 0, finalizeCalls |-> 0,
     doneSeen |-> FALSE, acctErr |-> FALSE, upstream |-> FALSE,
     seen |-> [InputTokens |-> 0, OutputTokens |-> 0, Found |-> FALSE,
               Error |-> FALSE]]

\* what the chunks of a stream have carried so far, the chunk f included: the
\* largest token counts reported, whether any usage report was found, and
\* whether any chunk had an "error" field
SeenWith(seen, f) ==
    IF f.done THEN seen
    ELSE [InputTokens |-> IF f.usage.Found
                          THEN MaxOf(seen.InputTokens, f.usage.InputTokens)
                          ELSE seen.InputTokens,
          OutputTokens |-> IF f.usage.Found
                           THEN MaxOf(seen.OutputTokens, f.usage.OutputTokens)
                           ELSE seen.OutputTokens,
          Found |-> seen.Found \/ f.usage.Found,
          Error |-> seen.Error \/ f.error]

NoOp == [client |-> 0, kind |-> "none", deleted |-> FALSE]

InitStore ==
    /\ now = 0
    /\ ticks = 0
    /\ spend = [tn \in Tenants |-> EmptyHash]
    /\ expireAt = [tn \in Tenants |-> NoKey]
    /\ limitKey = TenantLimits
    /\ lastOp = NoOp

\* a request arrives at the proxy, the store being empty: a POST with a
\* tenant header and prompt text, for which the middleware will compute an
\* estimate, or a request the middlewares do not govern (NoTenant)
InitRequests ==
    \E tn \in [Requests -> Tenants \cup {NoTenant}],
       e \in [Requests -> EstimateSet \cup {0}] :
          /\ \A r \in Requests : (tn[r] = NoTenant) <=> (e[r] = 0)
          /\ req = [r \in Requests |-> InitReq(tn[r], e[r])]

Init ==
    /\ InitStore
    /\ InitRequests
    /\ reader = [r \in Requests |-> InitReader]
    /\ hist = [r \in Requests |-> InitHist]
    /\ tasks = EmptyBag
    /\ runner = InitRunner
    /\ server = InitServer
    /\ vstore = InitVStore
    /\ client = << >>

\* the store's clock advances by d seconds; a key whose expiry has passed
\* is gone
Advance(d) ==
    /\ ticks' = ticks + 1
    /\ now' = now + d
    /\ spend' = [tn \in Tenants |->
                   IF expireAt[tn] # NoKey /\ expireAt[tn] <= now + d
                   THEN EmptyHash ELSE spend[tn]]
    /\ expireAt' = [tn \in Tenants |->
                      IF expireAt[tn] # NoKey /\ expireAt[tn] <= now + d
                      THEN NoKey ELSE expireAt[tn]]
    /\ lastOp' = NoOp
    /\ UNCHANGED <<limitKey, req, reader, tasks, hist, client, runner, server, vstore>>

\* the clock advances, MaxTicks times at most
Tick(d) ==
    /\ ticks < MaxTicks
    /\ Advance(d)

\* mutant: after writing the 429 the middleware goes on to the next handler
RateLimitingFallsThrough(r, ok) ==
    /\ req[r].pc = "new"
    /\ req[r].method = "POST"
    /\ req[r].tenant # NoTenant
    /\ LET tn == req[r].tenant
           estimatedCost == req[r].est
           c == CheckLimitAndIncrement(tn, estimatedCost, ok)
           result == c.result
       IN /\ spend' = [spend EXCEPT ![tn] = c.hash]
          /\ expireAt' = [expireAt EXCEPT ![tn] = c.expire]
          /\ req' = [req EXCEPT ![r] =
                IF c.err
                THEN [@ EXCEPT !.pc = "forwarded"]
                ELSE IF ~result.Allowed
                THEN [@ EXCEPT !.pc = "forwarded", !.status = StatusTooManyRequests,
                               !.result = result, !.headers = TRUE]
                ELSE [@ EXCEPT !.pc = "forwarded", !.result = result,
                               !.headers = TRUE, !.ctxTenant = tn,
                               !.ctxEstimate = estimatedCost]]
          /\ hist' = [hist EXCEPT ![r].reserveErr = ~ok,
                                  ![r].added = ok /\ result.Allowed,
                                  ![r].net = IF ok /\ result.Allowed
                                             THEN estimatedCost ELSE 0]
    /\ UNCHANGED <<now, ticks, limitKey, reader, tasks>>
    /\ UNCHANGED <<client, lastOp, runner, server, vstore>>

\* mutant: the rate limiter governs every method
RateLimitingAnyMethod(r, ok) ==
    /\ req[r].pc = "new"
    /\ req[r].tenant # NoTenant
    /\ LET tn == req[r].tenant
           estimatedCost == req[r].est
           c == CheckLimitAndIncrement(tn, estimatedCost, ok)
           result == c.result
       IN /\ spend' = [spend EXCEPT ![tn] = c.hash]
          /\ expireAt' = [expireAt EXCEPT ![tn] = c.expire]
          /\ req' = [req EXCEPT ![r] =
                IF c.err
                THEN [@ EXCEPT !.pc = "forwarded"]
                ELSE IF ~result.Allowed
                THEN [@ EXCEPT !.pc = "denied", !.status = StatusTooManyRequests,
                               !.result = result, !.headers = TRUE]
                ELSE [@ EXCEPT !.pc = "forwarded", !.result = result,
                               !.headers = TRUE, !.ctxTenant = tn,
                               !.ctxEstimate = estimatedCost]]
          /\ hist' = [hist EXCEPT ![r].reserveErr = ~ok,
                                  ![r].added = ok /\ result.Allowed,
                                  ![r].net = IF ok /\ result.Allowed
                                             THEN estimatedCost ELSE 0]
    /\ UNCHANGED <<now, ticks, limitKey, reader, tasks>>
    /\ UNCHANGED <<client, lastOp, runner, server, vstore>>

\* middleware.RateLimiting for a POST with a tenant header and prompt text
RateLimiting(r, ok) ==
    /\ req[r].pc = "new"
    /\ req[r].method = "POST"
    /\ req[r].tenant # NoTenant
    /\ LET tn == req[r].tenant
           estimatedCost == req[r].est
           c == CheckLimitAndIncrement(tn, estimatedCost, ok)
           result == c.result
       IN /\ spend' = [spend EXCEPT ![tn] = c.hash]
          /\ expireAt' = [expireAt EXCEPT ![tn] = c.expire]
          /\ req' = [req EXCEPT ![r] =
                IF c.err
                THEN [@ EXCEPT !.pc = "forwarded"]
                ELSE IF ~result.Allowed
                THEN [@ EXCEPT !.pc = "denied", !.status = StatusTooManyRequests,
                               !.result = result, !.headers = TRUE]
                ELSE [@ EXCEPT !.pc = "forwarded", !.result = result,
                               !.headers = TRUE, !.ctxTenant = tn,
                               !.ctxEstimate = estimatedCost]]
          /\ hist' = [hist EXCEPT ![r].reserveErr = ~ok,
                                  ![r].added = ok /\ result.Allowed,
                                  ![r].net = IF ok /\ result.Allowed
                                             THEN estimatedCost ELSE 0]
    /\ UNCHANGED <<now, ticks, limitKey, reader, tasks>>
    /\ UNCHANGED <<callerVars, runner, server, vstore>>

\* middleware.RateLimiting for a request it does not govern (no tenant header,
\* not a POST, no prompt text): handed to the next handler as it is
RateLimitingSkip(r) ==
    /\ req[r].pc = "new"
    /\ req[r].method # "POST" \/ req[r].tenant = NoTenant
    /\ req' = [req EXCEPT ![r].pc = "forwarded"]
    /\ UNCHANGED <<now, ticks, spend, expireAt, limitKey, reader, tasks, hist>>
    /\ UNCHANGED <<callerVars, runner, server, vstore>>

\* one background accounting task handed to async.Run
Task(r, kind, usage, isError) ==
    [req |-> r, kind |-> kind, usage |-> usage, isError |-> isError,
     tenantID |-> req[r].ctxTenant, estimate |-> req[r].ctxEstimate]

\* what the sidecar's CheckLoop call gives: an error, the deadline exceeded,
\* no loop, or a loop
SidecarReplies == {"error", "deadline", "clear", "loop"}

\* LoopDetection once the sidecar has reported a loop: the body is decoded,
\* the hint injected and, when that succeeded, the body replaced by the
\* re-serialized bytes and both Content-Length values set to their number;
\* inject: the configured hint is not empty
Hinted(rq, inject) ==
    LET h == InjectHint(Unmarshal(rq.reqBytes),
                        IF inject THEN InterventionHint ELSE "")
        updated == Marshal(h.data)
    IN IF h.ok
       THEN [rq EXCEPT !.loop = "loop", !.reqBody = "hinted",
                       !.reqBytes = updated,
                       !.contentLength = Len(updated),
                       !.clHeader = Itoa(Len(updated))]
       ELSE [rq EXCEPT !.loop = "loop"]

\* mutant: a failing sidecar call ends the request with 503
LoopDetectionFailClosed(r, reply, inject) ==
    /\ req[r].pc = "forwarded" /\ req[r].loop = "pending"
    /\ req' = [req EXCEPT ![r] =
          IF req[r].method # "POST" \/ req[r].tenant = NoTenant
          THEN [@ EXCEPT !.loop = "skipped"]
          ELSE IF reply \in {"error", "deadline"}
          THEN [@ EXCEPT !.loop = reply, !.pc = "failed", !.status = 503]
          ELSE IF reply = "clear" THEN [@ EXCEPT !.loop = "clear"]
          ELSE Hinted(req[r], inject)]
    /\ UNCHANGED <<now, ticks, spend, expireAt, limitKey, reader, tasks, hist>>
    /\ UNCHANGED <<client, lastOp, runner, server, vstore>>

\* mutant: the rewritten body goes on with the old r.ContentLength
LoopDetectionKeepsLength(r, reply, inject) ==
    /\ req[r].pc = "forwarded" /\ req[r].loop = "pending"
    /\ req' = [req EXCEPT ![r] =
          IF req[r].method # "POST" \/ req[r].tenant = NoTenant
          THEN [@ EXCEPT !.loop = "skipped"]
          ELSE IF reply \in {"error", "deadline"} THEN [@ EXCEPT !.loop = reply]
          ELSE IF reply = "clear" THEN [@ EXCEPT !.loop = "clear"]
          ELSE [Hinted(req[r], inject) EXCEPT
                   !.contentLength = req[r].contentLength]]
    /\ UNCHANGED <<now, ticks, spend, expireAt, limitKey, reader, tasks, hist>>
    /\ UNCHANGED <<client, lastOp, runner, server, vstore>>

\* middleware.LoopDetection, installed between the rate limiter and the
\* proxy. Without a tenant header the request is passed on untouched;
\* otherwise client.Check is called: on an error or an exceeded deadline, and
\* when no loop is found, the request goes on with the body as received; on
\* a loop the body is rewritten when the provider could inject the hint.
LoopDetection(r, reply, inject) ==
    /\ req[r].pc = "forwarded" /\ req[r].loop = "pending"
    /\ req' = [req EXCEPT ![r] =
          IF req[r].method # "POST" \/ req[r].tenant = NoTenant
          THEN [@ EXCEPT !.loop = "skipped"]
          ELSE IF reply \in {"error", "deadline"} THEN [@ EXCEPT !.loop = reply]
          ELSE IF reply = "clear" THEN [@ EXCEPT !.loop = "clear"]
          ELSE Hinted(req[r], inject)]
    /\ UNCHANGED <<now, ticks, spend, expireAt, limitKey, reader, tasks, hist>>
    /\ UNCHANGED <<callerVars, runner, server, vstore>>

\* mutant: the error handler answers 502 and schedules nothing
ErrorHandlerNoRefund(r) ==
    /\ req[r].pc = "forwarded" /\ req[r].loop # "pending"
    /\ req' = [req EXCEPT ![r].pc = "failed", ![r].status = StatusBadGateway]
    /\ hist' = [hist EXCEPT ![r].upstream = TRUE]
    /\ UNCHANGED <<now, ticks, spend, expireAt, limitKey, reader, tasks>>
    /\ UNCHANGED <<client, lastOp, runner, server, vstore>>

\* handlers.CreateErrorHandler: the upstream connection failed
ErrorHandler(r) ==
    /\ req[r].pc = "forwarded" /\ req[r].loop # "pending"
    /\ tasks' = IF req[r].ctxTenant # "" /\ req[r].ctxEstimate > 0
                THEN tasks (+) SetToBag({Task(r, "proxyError", NoUsage, TRUE)})
                ELSE tasks
    /\ req' = [req EXCEPT ![r].pc = "failed", ![r].status = StatusBadGateway]
    /\ hist' = [hist EXCEPT ![r].upstream = TRUE]
    /\ UNCHANGED <<now, ticks, spend, expireAt, limitKey, reader>>
    /\ UNCHANGED <<callerVars, runner, server, vstore>>

\* handlers.CreateModifyResponse, non-streaming response
ModifyResponse(r, status, body) ==
    /\ req[r].pc = "forwarded" /\ req[r].loop # "pending"
    /\ LET tenantID == req[r].ctxTenant
           estimate == req[r].ctxEstimate
           isError == body.error \/ status >= StatusBadRequest
       IN tasks' = IF tenantID = "" \/ estimate = 0 \/ ~body.json
                   THEN tasks
                   ELSE tasks (+) SetToBag({Task(r, "response", body.usage, isError)})
    /\ req' = [req EXCEPT ![r].pc = "done", ![r].status = status, ![r].body = body]
    /\ hist' = [hist EXCEPT ![r].upstream = TRUE]
    /\ UNCHANGED <<now, ticks, spend, expireAt, limitKey, reader>>
    /\ UNCHANGED <<callerVars, runner, server, vstore>>

\* handlers.CreateModifyResponse, streaming response: NewStreamingResponseReader
ModifyResponseStream(r, status) ==
    /\ req[r].pc = "forwarded" /\ req[r].loop # "pending"
    /\ req[r].ctxTenant # "" /\ req[r].ctxEstimate # 0
    /\ reader' = [reader EXCEPT ![r] = [InitReader EXCEPT
                      !.tenantID = req[r].ctxTenant,
                      !.estimate = req[r].ctxEstimate]]
    /\ req' = [req EXCEPT ![r].pc = "streaming", ![r].status = status]
    /\ hist' = [hist EXCEPT ![r].streamed = TRUE, ![r].upstream = TRUE]
    /\ UNCHANGED <<now, ticks, spend, expireAt, limitKey, tasks>>
    /\ UNCHANGED <<callerVars, runner, server, vstore>>

\* StreamingResponseReader.parseSSELine on one frame: the reader afterwards and
\* the number of finalizeCost calls made (a [DONE] frame calls finalizeCost
\* and leaves the finalized flag as it is)
ParseSSELine(rd, f) ==
    IF f.done THEN [reader |-> rd, finalize |-> 1]
    ELSE LET u == f.usage
             merged == IF u.Found
                       THEN [InputTokens |-> MaxOf(u.InputTokens, rd.usage.InputTokens),
                             OutputTokens |-> MaxOf(u.OutputTokens, rd.usage.OutputTokens),
                             Found |-> TRUE]
                       ELSE rd.usage
         IN [reader |-> [rd EXCEPT !.hasError = @ \/ f.error, !.usage = merged],
             finalize |-> 0]

\* the block shared by Read (on io.EOF) and Close: parse what is left in the
\* buffer, call finalizeCost, set finalized
Finalize(rd) ==
    IF rd.finalized THEN [reader |-> rd, finalize |-> 0]
    ELSE LET p == IF rd.buffer # NoFrame THEN ParseSSELine(rd, rd.buffer)
                  ELSE [reader |-> rd, finalize |-> 0]
         IN [reader |-> [p.reader EXCEPT !.finalized = TRUE],
             finalize |-> p.finalize + 1]

\* the calls of finalizeCost made in one step, starts[i] being the reader's
\* usage and hasError at the i-th call: each hands one task to async.Run.
\* The closure holds the reader, not its values; the task records what the
\* fields held when its goroutine was started, the oldest values the closure
\* can read.
FinalizeCost(r, starts) ==
    LET started == {Task(r, "stream", starts[i].usage, starts[i].hasError) :
                       i \in DOMAIN starts}
    IN IF starts = << >> THEN tasks
       ELSE tasks (+) [x \in started |->
                         Cardinality({i \in DOMAIN starts :
                            Task(r, "stream", starts[i].usage,
                                 starts[i].hasError) = x})]

\* n calls made with the reader as rd
Starts(n, rd) == [i \in 1..n |-> [usage |-> rd.usage, hasError |-> rd.hasError]]

\* Read returns a chunk holding one complete frame: processChunk
ReadFrame(r, f) ==
    /\ req[r].pc = "streaming"
    /\ reader[r].buffer = NoFrame
    /\ reader[r].frames < MaxFrames
    /\ LET p == ParseSSELine(reader[r], f)
       IN /\ reader' = [reader EXCEPT ![r] = [p.reader EXCEPT !.frames = @ + 1]]
          /\ tasks' = FinalizeCost(r, Starts(p.finalize, p.reader))
          /\ hist' = [hist EXCEPT ![r].finalizeCalls = @ + p.finalize,
                                  ![r].doneSeen = @ \/ f.done,
                                  ![r].seen = SeenWith(@, f)]
    /\ UNCHANGED <<now, ticks, spend, expireAt, limitKey, req>>
    /\ UNCHANGED <<callerVars, runner, server, vstore>>

\* Read returns the last bytes of the stream, a frame with no delimiter after
\* it: processChunk leaves it in the buffer
ReadTail(r, f) ==
    /\ req[r].pc = "streaming"
    /\ reader[r].buffer = NoFrame
    /\ reader[r].frames < MaxFrames
    /\ reader' = [reader EXCEPT ![r].buffer = f, ![r].frames = @ + 1]
    /\ hist' = [hist EXCEPT ![r].seen = SeenWith(@, f)]
    /\ UNCHANGED <<now, ticks, spend, expireAt, limitKey, req, tasks>>
    /\ UNCHANGED <<callerVars, runner, server, vstore>>

\* Read returns io.EOF
ReadEOF(r) ==
    /\ req[r].pc = "streaming"
    /\ LET p == Finalize(reader[r])
       IN /\ reader' = [reader EXCEPT ![r] = p.reader]
          /\ tasks' = FinalizeCost(r, Starts(p.finalize, p.reader))
          /\ hist' = [hist EXCEPT ![r].finalizeCalls = @ + p.finalize,
                                  ![r].doneSeen = @ \/ (~reader[r].finalized
                                                        /\ reader[r].buffer.done)]
    /\ req' = [req EXCEPT ![r].pc = "eof"]
    /\ UNCHANGED <<now, ticks, spend, expireAt, limitKey>>
    /\ UNCHANGED <<callerVars, runner, server, vstore>>

\* StreamingResponseReader.Close
Close(r) ==
    /\ req[r].pc \in {"streaming", "eof"}
    /\ LET p == Finalize(reader[r])
       IN /\ reader' = [reader EXCEPT ![r] = p.reader]
          /\ tasks' = FinalizeCost(r, Starts(p.finalize, p.reader))
          /\ hist' = [hist EXCEPT ![r].finalizeCalls = @ + p.finalize,
                                  ![r].doneSeen = @ \/ (~reader[r].finalized
                                                        /\ reader[r].buffer.done)]
    /\ req' = [req EXCEPT ![r].pc = "done"]
    /\ UNCHANGED <<now, ticks, spend, expireAt, limitKey>>
    /\ UNCHANGED <<callerVars, runner, server, vstore>>

\* what the closure of a background task reads when it runs. The closures
\* of ModifyResponse and of the error handler read their own variables. The
\* closure of finalizeCost reads s.usage.Found, then the token counts or
\* s.hasError, from the reader, which Read goes on writing on the handler's
\* goroutine with no synchronisation between the two: each read gives the
\* value the field held when the goroutine was started or a value written
\* since, one read independently of the other. (A count takes one value
\* besides 0 and a flag is only ever set, so the values written since are
\* the field's present value.)
TaskReads(task) ==
    IF task.kind = "stream"
    THEN LET rd == reader[task.req]
         IN [Found : {task.usage.Found, rd.usage.Found},
             InputTokens : {task.usage.InputTokens, rd.usage.InputTokens},
             OutputTokens : {task.usage.OutputTokens, rd.usage.OutputTokens},
             isError : {task.isError, rd.hasError}]
    ELSE {[Found |-> task.usage.Found,
           InputTokens |-> task.usage.InputTokens,
           OutputTokens |-> task.usage.OutputTokens,
           isError |-> task.isError]}

\* what a background task does on the values rd it has read: "adjust",
\* "refund" or "none"
TaskCall(task, rd) ==
    IF task.kind = "proxyError" THEN "refund"
    ELSE IF rd.Found THEN "adjust"
    ELSE IF rd.isError THEN "refund"
    ELSE "none"
TaskActual(rd) ==
    CalculateCost(rd.InputTokens, rd.OutputTokens, Pricing)

\* a task handed to async.Run runs; ok: the store call returned no error
RunTask(task, ok) ==
    /\ BagIn(task, tasks)
    /\ tasks' = tasks (-) SetToBag({task})
    /\ \E rd \in TaskReads(task) :
          LET r == task.req
              tn == task.tenantID
              call == TaskCall(task, rd)
              actualCost == TaskActual(rd)
              s == IF call = "adjust"
                   THEN AdjustCost(tn, task.estimate, actualCost, ok)
                   ELSE RefundEstimate(tn, task.estimate, ok)
              delta == IF call = "adjust" THEN actualCost - task.estimate
                       ELSE 0 - task.estimate
          IN IF call = "none"
             THEN UNCHANGED <<spend, expireAt, hist>>
             ELSE /\ spend' = [spend EXCEPT ![tn] = s.hash]
                  /\ expireAt' = [expireAt EXCEPT ![tn] = s.expire]
                  /\ hist' = [hist EXCEPT
                        ![r].nAdjust = IF call = "adjust" THEN @ + 1 ELSE @,
                        ![r].nRefund = IF call = "refund" THEN @ + 1 ELSE @,
                        ![r].storeFail = @ \/ ~ok,
                        ![r].acctErr = @ \/ s.err,
                        ![r].net = IF ok THEN @ + delta ELSE @]
    /\ UNCHANGED <<now, ticks, limitKey, req, reader>>
    /\ UNCHANGED <<callerVars, runner, server, vstore>>

\* ------------------------------------------- direct calls of the accountant
IdleClient ==
    [pc |-> "idle", tenant |-> "", est |-> 0, result |-> NoResult,
     scriptErr |-> FALSE, err |-> FALSE]
SettledClient == [IdleClient EXCEPT !.pc = "settled"]

\* callers of CheckAndReserve, AdjustCost and RefundEstimate, the store being empty
InitCallers ==
    /\ InitStore
    /\ client = [c \in Clients |-> IdleClient]
    /\ req = << >>
    /\ reader = << >>
    /\ hist = << >>
    /\ tasks = EmptyBag
    /\ runner = InitRunner
    /\ server = InitServer
    /\ vstore = InitVStore

\* mutant: the spend is kept under one key for all tenants
CheckAndReserveOneKey(c, tn, estimatedCost, ok) ==
    /\ client[c].pc = "idle"
    /\ \A d \in Clients : d < c => client[d].pc # "idle"
    /\ LET r == CheckLimitAndIncrement(tn, estimatedCost, ok)
       IN /\ spend' = [o \in Tenants |-> r.hash]
          /\ expireAt' = [o \in Tenants |-> r.expire]
          /\ client' = [client EXCEPT ![c] =
                [pc |-> IF r.result.Allowed THEN "reserved" ELSE "rejected",
                 tenant |-> tn, est |-> estimatedCost, result |-> r.result,
                 scriptErr |-> ~ok, err |-> r.err]]
          /\ lastOp' = [client |-> c, kind |-> "reserve",
                        deleted |-> DOMAIN r.hash # DOMAIN spend[tn] \cup
                                      (IF ok /\ r.result.Allowed
                                       THEN {MinuteBucket(now)} ELSE {})]
    /\ UNCHANGED <<now, ticks, limitKey>>
    /\ UNCHANGED <<req, reader, tasks, hist, runner, server, vstore>>

\* a caller runs CheckLimitAndIncrement(tn, estimatedCost); ok: runScript
\* returned no error. Callers are numbered in the order of their first call.
CheckAndReserve(c, tn, estimatedCost, ok) ==
    /\ client[c].pc = "idle"
    /\ \A d \in Clients : d < c => client[d].pc # "idle"
    /\ LET r == CheckLimitAndIncrement(tn, estimatedCost, ok)
       IN /\ spend' = [spend EXCEPT ![tn] = r.hash]
          /\ expireAt' = [expireAt EXCEPT ![tn] = r.expire]
          /\ client' = [client EXCEPT ![c] =
                [pc |-> IF r.result.Allowed THEN "reserved" ELSE "rejected",
                 tenant |-> tn, est |-> estimatedCost, result |-> r.result,
                 scriptErr |-> ~ok, err |-> r.err]]
          /\ lastOp' = [client |-> c, kind |-> "reserve",
                        deleted |-> DOMAIN r.hash # DOMAIN spend[tn] \cup
                                      (IF ok /\ r.result.Allowed
                                       THEN {MinuteBucket(now)} ELSE {})]
    /\ UNCHANGED <<now, ticks, limitKey>>
    /\ UNCHANGED <<proxyVars, runner, server, vstore>>

\* a caller that holds a reservation runs AdjustCost
CallAdjustCost(c, actual, ok) ==
    /\ client[c].pc = "reserved"
    /\ LET tn == client[c].tenant
           s == AdjustCost(tn, client[c].est, actual, ok)
       IN /\ spend' = [spend EXCEPT ![tn] = s.hash]
          /\ expireAt' = [expireAt EXCEPT ![tn] = s.expire]
    /\ client' = [client EXCEPT ![c] = SettledClient]
    /\ lastOp' = NoOp
    /\ UNCHANGED <<now, ticks, limitKey>>
    /\ UNCHANGED <<proxyVars, runner, server, vstore>>

\* a caller that holds a reservation runs RefundEstimate
CallRefundEstimate(c, ok) ==
    /\ client[c].pc = "reserved"
    /\ LET tn == client[c].tenant
           s == RefundEstimate(tn, client[c].est, ok)
       IN /\ spend' = [spend EXCEPT ![tn] = s.hash]
          /\ expireAt' = [expireAt EXCEPT ![tn] = s.expire]
    /\ client' = [client EXCEPT ![c] = SettledClient]
    /\ lastOp' = NoOp
    /\ UNCHANGED <<now, ticks, limitKey>>
    /\ UNCHANGED <<proxyVars, runner, server, vstore>>

\* estimates a direct caller may pass, the zero estimate included
CallerEstimates == {0, 2}

\* a caller runs CheckLimitAndIncrement(tn, estimatedCost) on the receiver rl
CheckAndReserveOn(c, rl, tn, estimatedCost, ok) ==
    /\ client[c].pc = "idle"
    /\ \A d \in Clients : d < c => client[d].pc # "idle"
    /\ LET r == CheckLimitAndIncrementOn(rl, tn, estimatedCost, ok)
       IN /\ spend' = [spend EXCEPT ![tn] = r.hash]
          /\ expireAt' = [expireAt EXCEPT ![tn] = r.expire]
          /\ client' = [client EXCEPT ![c] =
                IF r.panic THEN [IdleClient EXCEPT !.pc = "panicked"]
                ELSE [pc |-> IF r.result.Allowed THEN "reserved" ELSE "rejected",
                      tenant |-> tn, est |-> estimatedCost, result |-> r.result,
                      scriptErr |-> ~(ok /\ rl.client), err |-> r.err]]
          /\ lastOp' = [client |-> c,
                        kind |-> IF rl.nil THEN "reserveNil" ELSE "reserve",
                        deleted |-> DOMAIN r.hash # DOMAIN spend[tn] \cup
                                      (IF ~r.panic /\ ok /\ rl.client
                                          /\ r.result.Allowed
                                       THEN {MinuteBucket(now)} ELSE {})]
    /\ UNCHANGED <<now, ticks, limitKey>>
    /\ UNCHANGED <<proxyVars, runner, server, vstore>>

NextCallers ==
    \/ \E d \in TickSteps : Tick(d)
    \/ \E c \in Clients, tn \in Tenants, e \in EstimateSet, ok \in BOOLEAN :
          CheckAndReserve(c, tn, e, ok)
    \/ \E c \in Clients, actual \in ActualCosts, ok \in BOOLEAN :
          CallAdjustCost(c, actual, ok)
    \/ \E c \in Clients, ok \in BOOLEAN : CallRefundEstimate(c, ok)

StoreSpec == InitCallers /\ [][NextCallers]_vars

\* callers that never settle above their estimate, followed for one more
\* advance of the clock: what was reserved in one hour can be credited in
\* the next
LongTick(d) ==
    /\ ticks < MaxTicks + 1
    /\ Advance(d)

CallAdjustDown(c, actual, ok) ==
    /\ client[c].pc = "reserved"
    /\ actual <= client[c].est
    /\ CallAdjustCost(c, actual, ok)

NextSettleDown ==
    \/ \E d \in TickSteps : LongTick(d)
    \/ \E c \in Clients, tn \in Tenants, e \in EstimateSet, ok \in BOOLEAN :
          CheckAndReserve(c, tn, e, ok)
    \/ \E c \in Clients, actual \in ActualCosts, ok \in BOOLEAN :
          CallAdjustDown(c, actual, ok)
    \/ \E c \in Clients, ok \in BOOLEAN : CallRefundEstimate(c, ok)

SettleDownSpec == InitCallers /\ [][NextSettleDown]_vars

\* the accountant's callers at the edges: any receiver, zero estimates
NextBoundary ==
    \/ \E d \in TickSteps : Tick(d)
    \/ \E c \in Clients, rl \in Limiters, tn \in Tenants, e \in CallerEstimates,
          ok \in BOOLEAN : CheckAndReserveOn(c, rl, tn, e, ok)
    \/ \E c \in Clients, actual \in ActualCosts, ok \in BOOLEAN :
          CallAdjustCost(c, actual, ok)
    \/ \E c \in Clients, ok \in BOOLEAN : CallRefundEstimate(c, ok)

BoundarySpec == InitCallers /\ [][NextBoundary]_vars

Next ==
    \/ \E d \in TickSteps : Tick(d)
    \/ \E r \in Requests, ok \in BOOLEAN : RateLimiting(r, ok)
    \/ \E r \in Requests : RateLimitingSkip(r)
    \/ \E r \in Requests : ErrorHandler(r)
    \/ \E r \in Requests, status \in UpstreamStatuses, body \in Bodies :
          ModifyResponse(r, status, body)
    \/ \E r \in Requests, status \in UpstreamStatuses : ModifyResponseStream(r, status)
    \/ \E r \in Requests, f \in Frames : ReadFrame(r, f)
    \/ \E r \in Requests, f \in Frames : ReadTail(r, f)
    \/ \E r \in Requests : ReadEOF(r)
    \/ \E r \in Requests : Close(r)
    \/ \E task \in BagToSet(tasks), ok \in BOOLEAN : RunTask(task, ok)

Spec == Init /\ [][Next]_vars

\* the chain with the loop-detection middleware installed, for responses
\* that are not streamed
InitChain ==
    /\ InitStore
    /\ \E tn \in [Requests -> Tenants \cup {NoTenant}],
          e \in [Requests -> EstimateSet \cup {0}],
          m \in [Requests -> Methods], b \in [Requests -> ReqBodies] :
             /\ \A r \in Requests : (tn[r] = NoTenant) <=> (e[r] = 0)
             /\ req = [r \in Requests |->
                         [ArrivingReq(tn[r], e[r], m[r], b[r])
                             EXCEPT !.loop = "pending"]]
    /\ reader = [r \in Requests |-> InitReader]
    /\ hist = [r \in Requests |-> InitHist]
    /\ tasks = EmptyBag
    /\ runner = InitRunner
    /\ server = InitServer
    /\ vstore = InitVStore
    /\ client = << >>

NextChain ==
    \/ \E d \in TickSteps : Tick(d)
    \/ \E r \in Requests, ok \in BOOLEAN : RateLimiting(r, ok)
    \/ \E r \in Requests : RateLimitingSkip(r)
    \/ \E r \in Requests, reply \in SidecarReplies, inject \in BOOLEAN :
          LoopDetection(r, reply, inject)
    \/ \E r \in Requests : ErrorHandler(r)
    \/ \E r \in Requests, status \in UpstreamStatuses, body \in Bodies :
          ModifyResponse(r, status, body)
    \/ \E task \in BagToSet(tasks), ok \in BOOLEAN : RunTask(task, ok)

ChainSpec == InitChain /\ [][NextChain]_vars

\* ------------------------------------------------------------ properties
\* the tenant's spend of the last hour as GetSpend sums it over a hash h at
\* clock reading t: the buckets from one hour before the current minute on
InWindowSpend(h, t) ==
    SumOver(h, {f \in DOMAIN h : f >= MinuteBucket(t) - WindowSeconds})

\* the step in which caller c's CheckAndReserve call is made
ReserveStep(c) == client[c].pc = "idle" /\ client'[c].pc # "idle"
DeniedStep(c) == client[c].pc = "idle" /\ client'[c].pc = "rejected"

\* C1: two CheckAndReserve calls on the same tenant that the store executes one
\* right after the other, each of which fits under the limit on top of the
\* spend the first one saw but which do not fit together, are never both
\* allowed, whichever of the two the store executes first.
C1_AtMostOneAllowed ==
    [][\A c1, c2 \in Clients :
         (/\ c1 # c2
          /\ lastOp.kind = "reserve" /\ lastOp.client = c1
          /\ ReserveStep(c2)
          /\ ~client[c1].scriptErr /\ ~client'[c2].scriptErr
          /\ client[c1].tenant = client'[c2].tenant
          /\ LET current == client[c1].result.CurrentSpend
                 limit == client[c1].result.Limit
             IN /\ current + client[c1].est <= limit
                /\ current + client'[c2].est <= limit
                /\ current + client[c1].est + client'[c2].est > limit)
         => ~(client[c1].result.Allowed /\ client'[c2].result.Allowed)]_vars

\* C1 witness: the second of two such calls has just been denied, the first
\* having been allowed
C1_Witness ==
    \E c1, c2 \in Clients :
       /\ c1 # c2
       /\ lastOp.kind = "reserve" /\ lastOp.client = c2
       /\ ~client[c1].scriptErr /\ ~client[c2].scriptErr
       /\ client[c1].tenant = client[c2].tenant
       /\ client[c1].pc = "reserved" /\ client[c2].pc = "rejected"
       /\ client[c2].result.CurrentSpend =
             client[c1].result.CurrentSpend + client[c1].est
       /\ client[c1].result.CurrentSpend + client[c2].est <= client[c1].result.Limit

\* C5: a denied CheckAndReserve call leaves every tenant's summed in-window
\* spend as it was before the call.
C5_DenyKeepsSpend ==
    [][\A c \in Clients :
         DeniedStep(c) =>
           \A tn \in Tenants :
              InWindowSpend(spend'[tn], now) = InWindowSpend(spend[tn], now)]_vars

\* C5 witness: a call has just been denied for a tenant that has spend in
\* the window
C5_Witness ==
    \E c \in Clients :
       /\ lastOp.kind = "reserve" /\ lastOp.client = c
       /\ client[c].pc = "rejected"
       /\ InWindowSpend(spend[client[c].tenant], now) > 0

\* C6 as claimed: a denied CheckAndReserve call mutates nothing in the store.
C6_DenyMutatesNothing ==
    [][\A c \in Clients :
         DeniedStep(c) => spend' = spend /\ expireAt' = expireAt]_vars

\* C6 amended: a denied CheckAndReserve call adds nothing and changes no
\* value and no expiry; the only mutation it makes is the compaction every
\* call makes: the buckets older than one hour before the current minute are
\* deleted, and when none is left the key is gone with its expiry.
C6_DenyOnlyCompacts ==
    [][\A c \in Clients :
         DeniedStep(c) =>
           LET tn == client'[c].tenant
               oneHourAgo == MinuteBucket(now) - WindowSeconds
           IN /\ DOMAIN spend'[tn] = {f \in DOMAIN spend[tn] : f >= oneHourAgo}
              /\ \A f \in DOMAIN spend'[tn] : spend'[tn][f] = spend[tn][f]
              /\ expireAt'[tn] = IF DOMAIN spend'[tn] = {} THEN NoKey
                                 ELSE expireAt[tn]
              /\ \A o \in Tenants \ {tn} :
                    spend'[o] = spend[o] /\ expireAt'[o] = expireAt[o]]_vars

\* C6 witness: a call has just been denied and its script deleted a bucket
C6_Witness ==
    \E c \in Clients :
       /\ lastOp.kind = "reserve" /\ lastOp.client = c /\ lastOp.deleted
       /\ client[c].pc = "rejected"

\* the estimated cost was added to the current-minute bucket by c's call
AddedBy(c) ==
    LET tn == client'[c].tenant
        minuteBucket == MinuteBucket(now)
    IN /\ minuteBucket \in DOMAIN spend'[tn]
       /\ spend'[tn][minuteBucket] = HGet(spend[tn], minuteBucket) + client'[c].est

\* C7 as claimed: CheckAndReserve returns allowed=true iff that call added
\* the estimated cost to the tenant's current-minute bucket.
C7_AllowedIffAdded ==
    [][\A c \in Clients :
         ReserveStep(c) => (client'[c].result.Allowed <=> AddedBy(c))]_vars

\* C7 amended: when the reserve script runs without error, allowed=true iff
\* that call added the (positive) estimated cost to the current-minute
\* bucket; when the store call fails, allowed=true is returned and nothing is
\* added.
C7_AllowedIffAddedWhenHealthy ==
    [][\A c \in Clients :
         ReserveStep(c) =>
           /\ client'[c].est > 0
           /\ ~client'[c].scriptErr => (client'[c].result.Allowed <=> AddedBy(c))
           /\ client'[c].scriptErr =>
                /\ client'[c].result.Allowed
                /\ spend' = spend /\ expireAt' = expireAt]_vars

\* C7 witness: one call was allowed by the script and one was allowed
\* because the store call failed; the bucket holds the first one's estimate only
C7_Witness ==
    \E c, d \in Clients :
       /\ client[c].pc = "reserved" /\ ~client[c].scriptErr
       /\ client[d].pc = "reserved" /\ client[d].scriptErr
       /\ client[c].tenant = client[d].tenant
       /\ lastOp.kind = "reserve" /\ lastOp.client = d
       /\ HGet(spend[client[c].tenant], MinuteBucket(now)) = client[c].est

\* C10: when the store call fails, CheckAndReserve returns, without error,
\* allowed=true, current_spend=0, limit=default and remaining=default,
\* whatever the tenant and the estimate.
C10_FailOpenDecision ==
    \A c \in Clients :
       client[c].scriptErr =>
         /\ ~client[c].err
         /\ client[c].result = [Allowed |-> TRUE, CurrentSpend |-> 0,
                                Limit |-> DefaultLimit, Remaining |-> DefaultLimit]

\* C10 witness: the store call failed for a tenant that has a limit of its
\* own and spend in the window
C10_Witness ==
    \E c \in Clients :
       /\ client[c].scriptErr /\ client[c].pc = "reserved"
       /\ limitKey[client[c].tenant] \notin {NoLimit, DefaultLimit}
       /\ GetSpend(client[c].tenant) > 0

\* ---------------------------------------- properties of a request's life
\* the request's response is complete and every task scheduled for it has run
Settled(r) ==
    /\ req[r].pc \in {"done", "failed"}
    /\ \A task \in BagToSet(tasks) : task.req # r

\* the usage report the response carried
ResponseUsage(r) ==
    IF hist[r].streamed THEN reader[r].usage ELSE req[r].body.usage

\* C2: over the whole life of a request at most one accounting call is made
\* for its reservation: one AdjustCost, or one RefundEstimate, or none.
C2_OneAccountingCall ==
    \A r \in Requests : hist[r].nAdjust + hist[r].nRefund <= 1

\* C3: for a request whose reservation was added, once it is settled (the
\* store having failed on none of its calls) the net change its calls made to
\* the tenant's spend is the actual cost when the response carried usage,
\* 0 when the reservation was refunded, and the estimate otherwise.
C3_NetChange ==
    \A r \in Requests :
       (Settled(r) /\ hist[r].added /\ ~hist[r].storeFail) =>
          IF ResponseUsage(r).Found
          THEN hist[r].net = CalculateCost(ResponseUsage(r).InputTokens,
                                           ResponseUsage(r).OutputTokens, Pricing)
          ELSE IF hist[r].nRefund > 0 THEN hist[r].net = 0
          ELSE hist[r].net = req[r].est

\* C4: for a streamed response that contained a [DONE] frame, once the reader
\* is closed finalizeCost has been called exactly once.
C4_FinalizeOnce ==
    \A r \in Requests :
       (req[r].pc = "done" /\ hist[r].streamed /\ hist[r].doneSeen) =>
          hist[r].finalizeCalls = 1

\* C8: the sum of a tenant's buckets inside the sliding hour window is never
\* negative.
C8_SpendNonNegative ==
    \A tn \in Tenants : GetSpend(tn) >= 0

\* C9: a request whose store call failed is forwarded to the upstream; the
\* client gets no 429, and a 502 only when the upstream connection failed.
C9_FailOpenForwards ==
    \A r \in Requests :
       hist[r].reserveErr =>
         /\ req[r].pc \notin {"new", "denied"}
         /\ req[r].status # StatusTooManyRequests
         /\ req[r].status = StatusBadGateway => req[r].pc = "failed"

\* C9 witness: every store call of a request failed and the client has the
\* upstream's 200
C9_Witness ==
    \E r \in Requests :
       /\ hist[r].reserveErr /\ hist[r].storeFail
       /\ Settled(r) /\ req[r].pc = "done" /\ req[r].status = 200

\* --------------------------------- properties of the accountant's calls
\* C12: AdjustCost and RefundEstimate never return an error to the task that
\* calls them, and a call on which the store fails leaves every tenant's
\* hash and expiry as they were.
C12_AccountingSilent ==
    /\ [](\A r \in Requests : ~hist[r].acctErr)
    /\ [][\A task \in BagToSet(tasks) :
            RunTask(task, FALSE) => spend' = spend /\ expireAt' = expireAt]_vars

\* C12 witness: the one accounting call of a request with a reservation in
\* the store was a RefundEstimate on which the store failed
C12_Witness ==
    \E r \in Requests :
       /\ hist[r].added /\ ~hist[r].reserveErr /\ hist[r].storeFail
       /\ Settled(r) /\ hist[r].nRefund = 1 /\ hist[r].nAdjust = 0
       /\ hist[r].net = req[r].est
       /\ GetSpend(req[r].tenant) = req[r].est

\* the limit the script applies to a tenant
LimitOf(tn) == IF limitKey[tn] # NoLimit THEN limitKey[tn] ELSE DefaultLimit

\* C17: when the reserve script runs without error, the call is rejected iff
\* the sum the script computes over the window plus the estimated cost is
\* greater than the tenant's limit; a request that reaches the limit exactly
\* is allowed.
C17_RejectIffOverLimit ==
    [][\A c \in Clients :
         (ReserveStep(c) /\ ~client'[c].scriptErr) =>
            LET tn == client'[c].tenant
            IN (client'[c].pc = "rejected") <=>
                  (GetSpend(tn) + client'[c].est > LimitOf(tn))]_vars

\* C17 witness: a call has just been allowed whose estimate, on top of spend
\* already in the window, reaches the limit exactly
C17_Witness ==
    \E c \in Clients :
       /\ lastOp.kind = "reserve" /\ lastOp.client = c
       /\ client[c].pc = "reserved" /\ ~client[c].scriptErr
       /\ client[c].result.CurrentSpend > 0
       /\ client[c].result.CurrentSpend + client[c].est = client[c].result.Limit

C11_NilAccountantFailsOpen ==
    \A c \in Clients :
       (lastOp.kind = "reserveNil" /\ lastOp.client = c) =>
          /\ client[c].pc = "reserved"
          /\ ~client[c].err
          /\ client[c].result = FailOpenResult(DefaultLimit)

\* the step in which caller c's CheckAndReserve call with estimate 0, made on
\* an accountant that is not nil, returns
ZeroReserveStep(c) ==
    /\ ReserveStep(c)
    /\ client'[c].est = 0
    /\ lastOp'.kind = "reserve"

\* C18 as claimed: CheckAndReserve with estimate 0 is allowed in every state
\* of the tenant's buckets and limit and changes the summed spend by zero.
C18_ZeroAlwaysAllowed ==
    [][\A c \in Clients :
         ZeroReserveStep(c) =>
            /\ client'[c].pc = "reserved"
            /\ InWindowSpend(spend'[client'[c].tenant], now) =
                  InWindowSpend(spend[client'[c].tenant], now)]_vars

\* C18 amended: CheckAndReserve with estimate 0 changes the tenant's summed
\* spend by zero; it is allowed when the store call fails, and otherwise iff
\* the tenant's in-window sum is not above its limit: a tenant that an
\* AdjustCost has taken above its limit is denied even a zero estimate.
C18_ZeroAllowedUnlessOver ==
    [][\A c \in Clients :
         ZeroReserveStep(c) =>
            LET tn == client'[c].tenant
            IN /\ InWindowSpend(spend'[tn], now) = InWindowSpend(spend[tn], now)
               /\ client'[c].scriptErr => client'[c].pc = "reserved"
               /\ ~client'[c].scriptErr =>
                     ((client'[c].pc = "reserved") <=>
                         (GetSpend(tn) <= LimitOf(tn)))]_vars

\* C18 witness: a call with estimate 0 has just been denied by the script
C18_Witness ==
    \E c \in Clients :
       /\ lastOp.kind = "reserve" /\ lastOp.client = c
       /\ client[c].est = 0 /\ ~client[c].scriptErr
       /\ client[c].pc = "rejected"

\* ------------------------------------- properties of the response handlers
\* a RefundEstimate for r's reservation has been scheduled
RefundScheduled(r) ==
    \/ hist[r].nRefund > 0
    \/ \E task \in BagToSet(tasks) :
          task.req = r /\ \E rd \in TaskReads(task) : TaskCall(task, rd) = "refund"

\* C14: once a response that is an application error (status >= 400 or an
\* error field) and carries no usage report has been handled, whatever the
\* form of its body, a RefundEstimate for the request's reservation has been
\* scheduled.
C14_ErrorRefunded ==
    \A r \in Requests :
       (/\ req[r].pc = "done"
        /\ req[r].ctxTenant # "" /\ req[r].ctxEstimate > 0
        /\ \/ req[r].status >= StatusBadRequest
           \/ IF hist[r].streamed THEN hist[r].seen.Error
              ELSE req[r].body.error
        /\ ~ResponseUsage(r).Found)
       => RefundScheduled(r)

\* the step in which the error handler answers request r
ErrorHandlerStep(r) == req[r].pc = "forwarded" /\ req'[r].pc = "failed"

\* C15: when the upstream connection fails the client is answered 502, and
\* the step hands a RefundEstimate task to the runner iff tenant and a
\* positive estimate are attached to the request.
C15_BadGatewayRefundIffAttached ==
    [][\A r \in Requests :
         ErrorHandlerStep(r) =>
            /\ req'[r].status = StatusBadGateway
            /\ (\E task \in BagToSet(tasks') :
                   /\ task.req = r /\ task.kind = "proxyError"
                   /\ task.tenantID = req[r].ctxTenant
                   /\ task.estimate = req[r].ctxEstimate
                   /\ CopiesIn(task, tasks') = CopiesIn(task, tasks) + 1)
               <=> (req[r].ctxTenant # "" /\ req[r].ctxEstimate > 0)
            /\ (req[r].ctxTenant = "" => tasks' = tasks)]_vars

\* C15 witness: a request with a reservation in the store has been answered
\* 502 and its refund has run
C15_Witness ==
    \E r \in Requests :
       /\ req[r].pc = "failed" /\ req[r].status = StatusBadGateway
       /\ hist[r].added /\ ~hist[r].storeFail
       /\ hist[r].nRefund = 1 /\ hist[r].net = 0

\* the proxy's other state plays no part in the runner
InitAsync ==
    /\ InitStore
    /\ req = << >>
    /\ reader = << >>
    /\ hist = << >>
    /\ tasks = EmptyBag
    /\ client = << >>
    /\ runner = InitRunner
    /\ server = InitServer
    /\ vstore = InitVStore

NextAsync ==
    \/ \E g \in Funcs : Run(g)
    \/ \E g \in Funcs : Acquire(g)
    \/ \E g \in Funcs : Return(g)
    \/ \E g \in Funcs : Release(g)
    \/ \E g \in Funcs : Complete(g)
    \/ WaitCall
    \/ WaitReceive
    \/ WaitDeadline

AsyncSpec == InitAsync /\ [][NextAsync]_vars

\* the goroutines are scheduled, blocked senders are served in order, and
\* every fn returns
AsyncFairSpec ==
    /\ AsyncSpec
    /\ \A g \in Funcs :
          /\ SF_vars(Acquire(g))
          /\ WF_vars(Return(g))
          /\ WF_vars(Release(g))
          /\ WF_vars(Complete(g))

\* the server from its start to the end of the process
InitShutdown == InitAsync

NextShutdown ==
    \/ \E c \in Conns : Accept(c)
    \/ \E g \in Funcs : HandlerRun(g)
    \/ \E c \in Conns : Finish(c)
    \/ \E g \in Funcs : Goroutine(g)
    \/ Signal
    \/ Deadline
    \/ ShutdownBegins
    \/ ShutdownReturns
    \/ DrainCall
    \/ DrainReceive
    \/ DrainDeadline
    \/ DrainEnds
    \/ MainReturns

ShutdownSpec == InitShutdown /\ [][NextShutdown]_vars

\* the sidecar's vector store on its own
InitVectors == InitAsync

NextVectors ==
    \/ \E tenantID \in StoreTenants : StoreEmbedding(tenantID)
    \/ \E c \in vstore.stores, ok \in BOOLEAN : StoreHSet(c, ok)
    \/ \E c \in vstore.stores, ok \in BOOLEAN : StoreExpire(c, ok)
    \/ \E h \in vstore.keys : KeyExpires(h)
    \/ \E p \in vstore.prunes, ok \in BOOLEAN :
          \E keys \in SUBSET (p.start \cup p.added) :
             \E twice \in SUBSET keys : PruneScan(p, keys, twice, ok)
    \/ \E p \in vstore.prunes, ok \in BOOLEAN : PruneDelete(p, ok)

VectorSpec == InitVectors /\ [][NextVectors]_vars

\* ------------------------------------------- the response body, byte by byte
\* The bytes of a response body, as far as the reader tells them apart: line
\* feed, carriage return, the text `data: {...}` of a chunk with a usage
\* report ("x") and the text `data: [DONE]` ("d").
LF == "LF"
CR == "CR"
Bytes == {LF, CR, "x", "d"}
\* what one Read of the upstream body can put into p
Chunks == UNION {[1..n -> Bytes] : n \in 1..MaxChunk}
\* errors of Read: none, io.EOF, the connection failed, the body is closed
ReadErrors == {"nil", "EOF", "reset", "closed"}

\* bytes.Index, counted from 1; 0 when pat is not in s
IndexOf(s, pat) ==
    LET hits == {i \in 1..(Len(s) - Len(pat) + 1) :
                    SubSeq(s, i, i + Len(pat) - 1) = pat}
    IN IF hits = {} THEN 0 ELSE CHOOSE i \in hits : \A j \in hits : i <= j

\* the line end as it would be with the two frame delimiters alone: a lone
\* line feed ends nothing
LineEndOnDelimiters(buffer) ==
    LET i1 == IndexOf(buffer, <<LF, LF>>)
        i2 == IndexOf(buffer, <<CR, LF, CR, LF>>)
    IN IF i1 > 0 THEN i1 + 1
       ELSE IF i2 > 0 THEN i2 + 3
       ELSE 0

\* processChunk: where the first line of the buffer ends, 0 when the loop
\* breaks
LineEnd(buffer) ==
    LET i1 == IndexOf(buffer, <<LF, LF>>)
        i2 == IndexOf(buffer, <<CR, LF, CR, LF>>)
        i3 == IndexOf(buffer, <<LF>>)
    IN IF i1 > 0 THEN i1 + 1
       ELSE IF i2 > 0 THEN i2 + 3
       ELSE IF i3 > 0 /\ Len(buffer) > i3 /\ buffer[i3 + 1] # LF THEN i3
       ELSE 0

\* bytes.TrimSpace
RECURSIVE TrimSpace(_)
TrimSpace(line) ==
    IF line = << >> THEN line
    ELSE IF Head(line) \in {LF, CR} THEN TrimSpace(Tail(line))
    ELSE IF line[Len(line)] \in {LF, CR}
    THEN TrimSpace(SubSeq(line, 1, Len(line) - 1))
    ELSE line

\* parseSSELine on the bytes of one line: [DONE] calls finalizeCost, a chunk
\* that parses as JSON gives its usage, anything else is dropped
ParseSSEBytes(rd, line) ==
    LET t == TrimSpace(line)
    IN IF t = <<"d">> THEN [reader |-> rd, finalize |-> 1]
       ELSE IF t = <<"x">> THEN [reader |-> [rd EXCEPT !.found = TRUE], finalize |-> 0]
       ELSE [reader |-> rd, finalize |-> 0]

\* n calls of finalizeCost made with the byte-level reader as rd, which keeps
\* of the usage only whether one was found
StartsBytes(n, rd) ==
    [i \in 1..n |-> [usage |-> [NoUsage EXCEPT !.Found = rd.found],
                     hasError |-> FALSE]]

\* the loop of processChunk: lines are cut off the buffer and parsed until
\* no line end is found
RECURSIVE EmitLines(_)
EmitLines(st) ==
    LET buffer == st.reader.buffer
        lineEnd == LineEnd(buffer)
    IN IF lineEnd = 0 THEN st
       ELSE LET line == SubSeq(buffer, 1, lineEnd)
                rest == SubSeq(buffer, lineEnd + 1, Len(buffer))
                p == ParseSSEBytes([st.reader EXCEPT !.buffer = rest], line)
            IN EmitLines([reader |-> p.reader, lines |-> Append(st.lines, line),
                          finalize |-> st.finalize + p.finalize,
                          starts |-> st.starts \o
                                        StartsBytes(p.finalize, p.reader)])

ProcessChunk(rd, data) ==
    EmitLines([reader |-> [rd EXCEPT !.buffer = @ \o data], lines |-> << >>,
               finalize |-> 0, starts |-> << >>])

\* mutant: EOF and Close finalize whether or not the reader is finalized
FinalizeBytesAgain(rd) ==
    LET p == IF rd.buffer # << >> THEN ParseSSEBytes(rd, rd.buffer)
             ELSE [reader |-> rd, finalize |-> 0]
    IN [reader |-> [p.reader EXCEPT !.finalized = TRUE],
        finalize |-> p.finalize + 1]

\* the block shared by Read (on io.EOF) and Close, on the bytes
FinalizeBytes(rd) ==
    IF rd.finalized THEN [reader |-> rd, finalize |-> 0]
    ELSE LET p == IF rd.buffer # << >> THEN ParseSSEBytes(rd, rd.buffer)
                  ELSE [reader |-> rd, finalize |-> 0]
         IN [reader |-> [p.reader EXCEPT !.finalized = TRUE],
             finalize |-> p.finalize + 1]

NoIO == [data |-> << >>, err |-> "nil"]

\* the response of a request with a reservation arrives at ModifyResponse
InitBody ==
    /\ InitStore
    /\ req = [r \in Requests |->
                [pc |-> "headers", upstream |-> "open", reads |-> 0,
                 ctxTenant |-> "a", ctxEstimate |-> 2,
                 got |-> NoIO, out |-> NoIO]]
    /\ reader = [r \in Requests |->
                   [buffer |-> << >>, found |-> FALSE, finalized |-> FALSE]]
    /\ hist = [r \in Requests |-> [lines |-> << >>, late |-> 0, op |-> "none"]]
    /\ tasks = EmptyBag
    /\ runner = InitRunner
    /\ server = InitServer
    /\ vstore = InitVStore
    /\ client = << >>

\* CreateModifyResponse, response that is not a stream: io.ReadAll gives data
\* and err; without an error the body is replaced by a reader over data,
\* with an error the handler returns and the body stays as ReadAll left it.
\* None of these bodies is a JSON document, so nothing is scheduled.
BufferedBody(r, data, err) ==
    /\ req[r].pc = "headers"
    /\ req' = [req EXCEPT ![r].pc = "served",
                          ![r].upstream = IF err = "nil" THEN "eof" ELSE "failed",
                          ![r].got = [data |-> data, err |-> err],
                          ![r].out = [data |-> IF err = "nil" THEN data ELSE << >>,
                                      err |-> err]]
    /\ hist' = [hist EXCEPT ![r].op = "ReadAll"]
    /\ UNCHANGED <<now, ticks, spend, expireAt, limitKey, reader, tasks>>
    /\ UNCHANGED <<callerVars, runner, server, vstore>>

\* CreateModifyResponse, streaming response: the body is wrapped
StreamBody(r) ==
    /\ req[r].pc = "headers"
    /\ req' = [req EXCEPT ![r].pc = "streaming"]
    /\ hist' = [hist EXCEPT ![r].op = "wrap"]
    /\ UNCHANGED <<now, ticks, spend, expireAt, limitKey, reader, tasks>>
    /\ UNCHANGED <<callerVars, runner, server, vstore>>

\* what the wrapped body's Read may give in the state it is in
UpstreamGives(r, data, err) ==
    CASE req[r].upstream = "open" ->
            /\ err \in {"nil", "EOF", "reset"}
            /\ data # << >> \/ err # "nil"
            /\ data # << >> => req[r].reads < MaxFrames
      [] req[r].upstream = "eof" -> data = << >> /\ err = "EOF"
      [] req[r].upstream = "failed" -> data = << >> /\ err = "reset"
      [] OTHER -> data = << >> /\ err = "closed"

\* StreamingResponseReader.Read: the wrapped body's Read gives data and err
ReadBytes(r, data, err) ==
    /\ req[r].pc = "streaming"
    /\ UpstreamGives(r, data, err)
    /\ reader[r].finalized => hist[r].late < MaxFrames
    /\ LET p == IF data # << >> THEN ProcessChunk(reader[r], data)
                ELSE [reader |-> reader[r], lines |-> << >>, finalize |-> 0,
                      starts |-> << >>]
           f == IF err = "EOF" THEN FinalizeBytes(p.reader)
                ELSE [reader |-> p.reader, finalize |-> 0]
       IN /\ reader' = [reader EXCEPT ![r] = f.reader]
          /\ tasks' = FinalizeCost(r, p.starts \o StartsBytes(f.finalize, f.reader))
          /\ hist' = [hist EXCEPT ![r].lines = p.lines,
                                  ![r].late = IF reader[r].finalized THEN @ + 1 ELSE @,
                                  ![r].op = IF err = "EOF" THEN "ReadEOF" ELSE "Read"]
    /\ req' = [req EXCEPT ![r].upstream = IF err = "EOF" THEN "eof"
                                          ELSE IF err = "reset" THEN "failed" ELSE @,
                          ![r].reads = IF data # << >> THEN @ + 1 ELSE @,
                          ![r].got = [data |-> data, err |-> err],
                          ![r].out = [data |-> data, err |-> err]]
    /\ UNCHANGED <<now, ticks, spend, expireAt, limitKey>>
    /\ UNCHANGED <<callerVars, runner, server, vstore>>

\* StreamingResponseReader.Close
CloseReader(r) ==
    /\ req[r].pc = "streaming"
    /\ reader[r].finalized => hist[r].late < MaxFrames
    /\ LET f == FinalizeBytes(reader[r])
       IN /\ reader' = [reader EXCEPT ![r] = f.reader]
          /\ tasks' = FinalizeCost(r, StartsBytes(f.finalize, f.reader))
          /\ hist' = [hist EXCEPT ![r].lines = << >>,
                                  ![r].late = IF reader[r].finalized THEN @ + 1 ELSE @,
                                  ![r].op = "Close"]
    /\ req' = [req EXCEPT ![r].upstream = "closed",
                          ![r].got = NoIO, ![r].out = NoIO]
    /\ UNCHANGED <<now, ticks, spend, expireAt, limitKey>>
    /\ UNCHANGED <<callerVars, runner, server, vstore>>

NextBody ==
    \/ \E r \in Requests, data \in Chunks \cup {<< >>}, err \in {"nil", "reset"} :
          BufferedBody(r, data, err)
    \/ \E r \in Requests : StreamBody(r)
    \/ \E r \in Requests, data \in Chunks \cup {<< >>}, err \in ReadErrors :
          ReadBytes(r, data, err)
    \/ \E r \in Requests : CloseReader(r)

BodySpec == InitBody /\ [][NextBody]_vars

\* ------------------------------------ one stream, split across Read calls
\* the byte sequences an upstream may send before it ends the stream
Streams == UNION {[1..n -> Bytes] : n \in 1..MaxStream}

\* what the stream has led to: whether a usage report was found and how
\* often finalizeCost was called
Outcome(rd, calls) == [found |-> rd.found, calls |-> calls]

\* the outcome when the whole stream arrives in one Read, followed by EOF
WholeOutcome(stream) ==
    LET p == ProcessChunk([buffer |-> << >>, found |-> FALSE, finalized |-> FALSE],
                          stream)
        f == FinalizeBytes(p.reader)
    IN Outcome(f.reader, p.finalize + f.finalize)

\* a streaming response whose body is the stream s
InitSplit ==
    /\ InitStore
    /\ \E s \in Streams :
          req = [r \in Requests |-> [pc |-> "streaming", stream |-> s, rest |-> s]]
    /\ reader = [r \in Requests |->
                   [buffer |-> << >>, found |-> FALSE, finalized |-> FALSE]]
    /\ hist = [r \in Requests |-> [calls |-> 0, reads |-> 0]]
    /\ tasks = EmptyBag
    /\ runner = InitRunner
    /\ server = InitServer
    /\ vstore = InitVStore
    /\ client = << >>

\* StreamingResponseReader.Read: the wrapped body gives the next n bytes of
\* the stream, with io.EOF (eof) when they are the last
SplitRead(r, n, eof) ==
    /\ req[r].pc = "streaming"
    /\ n \in 1..Len(req[r].rest)
    /\ eof => n = Len(req[r].rest)
    /\ LET data == SubSeq(req[r].rest, 1, n)
           p == ProcessChunk(reader[r], data)
           f == IF eof THEN FinalizeBytes(p.reader)
                ELSE [reader |-> p.reader, finalize |-> 0]
       IN /\ reader' = [reader EXCEPT ![r] = f.reader]
          /\ hist' = [hist EXCEPT ![r].calls = @ + p.finalize + f.finalize,
                                  ![r].reads = @ + 1]
          /\ req' = [req EXCEPT ![r].rest = SubSeq(@, n + 1, Len(@)),
                                ![r].pc = IF eof THEN "eof" ELSE "streaming"]
    /\ UNCHANGED <<now, ticks, spend, expireAt, limitKey, tasks>>
    /\ UNCHANGED <<callerVars, runner, server, vstore>>

\* StreamingResponseReader.Read: the stream is over, the wrapped body gives
\* no bytes and io.EOF
SplitEOF(r) ==
    /\ req[r].pc = "streaming"
    /\ req[r].rest = << >>
    /\ LET f == FinalizeBytes(reader[r])
       IN /\ reader' = [reader EXCEPT ![r] = f.reader]
          /\ hist' = [hist EXCEPT ![r].calls = @ + f.finalize]
    /\ req' = [req EXCEPT ![r].pc = "eof"]
    /\ UNCHANGED <<now, ticks, spend, expireAt, limitKey, tasks>>
    /\ UNCHANGED <<callerVars, runner, server, vstore>>

NextSplit ==
    \/ \E r \in Requests, n \in 1..MaxStream, eof \in BOOLEAN : SplitRead(r, n, eof)
    \/ \E r \in Requests : SplitEOF(r)

SplitSpec == InitSplit /\ [][NextSplit]_vars

\* --------------------------------------------- properties of the chain
\* C13: a request whose sidecar call returned an error or exceeded its
\* deadline goes on to the next handler with the body it arrived with, and
\* whatever response the client gets comes from the upstream exchange: no
\* 429, and no other status before the proxy has tried the upstream.
C13_SidecarFailOpen ==
    \A r \in Requests :
       req[r].loop \in {"error", "deadline"} =>
          /\ req[r].reqBody = "received"
          /\ req[r].pc \in {"forwarded", "done", "failed"}
          /\ req[r].status # StatusTooManyRequests
          /\ req[r].status # 0 => hist[r].upstream

\* C13 witness: the sidecar call exceeded its deadline and the client has
\* the upstream's 200
C13_Witness ==
    \E r \in Requests :
       /\ req[r].loop = "deadline" /\ req[r].reqBody = "received"
       /\ req[r].pc = "done" /\ req[r].status = 200

\* the rate-limit gate has denied request r
DeniedByGate(r) == req[r].headers /\ ~req[r].result.Allowed

\* C16: a request the rate-limit gate has denied is answered 429 and goes no
\* further: the loop-detection middleware never runs for it (no sidecar
\* call) and the proxy never contacts the upstream.
C16_DeniedStopsChain ==
    \A r \in Requests :
       DeniedByGate(r) =>
          /\ req[r].pc = "denied" /\ req[r].status = StatusTooManyRequests
          /\ req[r].loop = "pending" /\ req[r].reqBody = "received"
          /\ ~hist[r].upstream
          /\ \A task \in BagToSet(tasks) : task.req # r

\* C16 witness: a request was denied and the clock has moved on since
C16_Witness ==
    \E r \in Requests :
       /\ DeniedByGate(r) /\ req[r].pc = "denied"
       /\ req[r].loop = "pending" /\ ticks = MaxTicks

\* ------------------------------------------- properties of the key's expiry
\* a script ran in this step (the clock stood still) and tenant tn's hash
\* got a new field or a new value in a field
BucketWritten(tn) ==
    /\ now' = now
    /\ \E f \in DOMAIN spend'[tn] :
          f \notin DOMAIN spend[tn] \/ spend'[tn][f] # spend[tn][f]

\* a script ran in this step and did nothing to tenant tn's hash but delete
\* fields
BucketsOnlyDeleted(tn) ==
    /\ now' = now
    /\ DOMAIN spend'[tn] # DOMAIN spend[tn]
    /\ ~BucketWritten(tn)

\* C21 as claimed: every script execution that adds to, changes or deletes a
\* field of spend:<tenant> leaves the key, when it still exists, with 7200
\* seconds to live.
C21_EveryWriteRefreshes ==
    [][\A tn \in Tenants :
         (now' = now /\ spend'[tn] # spend[tn] /\ DOMAIN spend'[tn] # {})
            => expireAt'[tn] = now + ExpirySeconds]_vars

\* C21 amended: every script execution that adds to or changes a bucket of
\* spend:<tenant> leaves the key with 7200 seconds to live; an execution that
\* only deletes old buckets (a denied check) leaves the expiry as it was, or
\* leaves no key when no bucket is left.
C21_IncrementRefreshes ==
    [][\A tn \in Tenants :
         /\ BucketWritten(tn) => expireAt'[tn] = now + ExpirySeconds
         /\ BucketsOnlyDeleted(tn) =>
               expireAt'[tn] = IF DOMAIN spend'[tn] = {} THEN NoKey
                               ELSE expireAt[tn]]_vars

\* C21 witness: after the clock moved, an AdjustCost or RefundEstimate call
\* wrote to a key that holds a bucket of an earlier minute, and the key has
\* 7200 seconds to live
C21_Witness ==
    \E tn \in Tenants :
       /\ lastOp = NoOp /\ now > 0
       /\ expireAt[tn] = now + ExpirySeconds
       /\ \E f \in DOMAIN spend[tn] : f < MinuteBucket(now)

\* ------------------------------------------ properties of the adjustment
\* in this step tenant tn's bucket of the current minute grew by d and
\* nothing else in any tenant's hash changed
OnlyCurrentBucketMoved(tn, d) ==
    LET minuteBucket == MinuteBucket(now)
    IN /\ DOMAIN spend'[tn] = DOMAIN spend[tn] \cup {minuteBucket}
       /\ spend'[tn][minuteBucket] = HGet(spend[tn], minuteBucket) + d
       /\ \A f \in DOMAIN spend[tn] \ {minuteBucket} : spend'[tn][f] = spend[tn][f]
       /\ \A o \in Tenants \ {tn} : spend'[o] = spend[o] /\ expireAt'[o] = expireAt[o]

\* C22: an AdjustCost(tenant, estimate, actual) call the store executes adds
\* exactly actual - estimate to the tenant's bucket of the minute current at
\* the time of the call and changes no other bucket; with actual = estimate
\* it changes nothing in the store. RefundEstimate(tenant, estimate) does
\* what AdjustCost(tenant, estimate, 0) does.
C22_AdjustMovesCurrentBucket ==
    [][\A c \in Clients :
         /\ \A actual \in ActualCosts :
               CallAdjustCost(c, actual, TRUE) =>
                  IF actual = client[c].est
                  THEN spend' = spend /\ expireAt' = expireAt
                  ELSE OnlyCurrentBucketMoved(client[c].tenant,
                                              actual - client[c].est)
         /\ CallRefundEstimate(c, TRUE) =>
               OnlyCurrentBucketMoved(client[c].tenant, 0 - client[c].est)]_vars

\* C22 witness: a reservation made in one minute was settled in a later one
\* for less than the estimate: the bucket of the reservation holds the
\* estimate and the bucket of the later minute holds the negative difference
C22_Witness ==
    \E c \in Clients, tn \in Tenants :
       /\ client[c].pc = "settled" /\ lastOp = NoOp
       /\ MinuteBucket(now) \in DOMAIN spend[tn]
       /\ spend[tn][MinuteBucket(now)] < 0
       /\ \E f \in DOMAIN spend[tn] :
             f < MinuteBucket(now) /\ spend[tn][f] \in EstimateSet

\* ------------------------------------- properties of concurrent settlements
\* the store's key at time t: gone when its expiry has passed
KeyAt(k, t) ==
    IF k.expire # NoKey /\ k.expire <= t
    THEN [hash |-> EmptyHash, expire |-> NoKey] ELSE k

\* the key after the adjust script ran at time t for a reservation of
\* estimate with the cost actual (0: RefundEstimate); ok: the store executed it
Settle(k, t, estimate, actual, ok) ==
    IF ok THEN AdjustScript(KeyAt(k, t).hash, KeyAt(k, t).expire, t, estimate, actual)
    ELSE KeyAt(k, t)

\* the sum GetSpend gives for the hash h at time t
SpendAt(h, t) ==
    SumOver(h, {f \in DOMAIN h : f >= MinuteBucket(t) - WindowSeconds})

\* the costs a settlement call passes: an actual cost, or 0 for a refund
SettleCosts == ActualCosts \cup {0}
\* seconds between the two settlement calls
SettleGaps == {0, 30, 3630}

\* the tenant's in-window spend after the settlement of e1 ran at now and
\* that of e2 ran gap seconds later
SpendAfterBoth(tn, e1, a1, ok1, e2, a2, ok2, gap) ==
    LET k0 == [hash |-> spend[tn], expire |-> expireAt[tn]]
        k1 == Settle(k0, now, e1, a1, ok1)
        k2 == Settle(k1, now + gap, e2, a2, ok2)
    IN SpendAt(k2.hash, now + gap)

\* two callers hold reservations of one tenant
BothReserved(c1, c2) ==
    /\ c1 # c2
    /\ client[c1].pc = "reserved" /\ client[c2].pc = "reserved"
    /\ client[c1].tenant = client[c2].tenant

\* the two orders of the settlement calls of c1 and c2, one call at now and
\* the other gap seconds later, leave the same in-window spend
SameInBothOrders(c1, c2, gap) ==
    \A a1, a2 \in SettleCosts, ok1, ok2 \in BOOLEAN :
       SpendAfterBoth(client[c1].tenant, client[c1].est, a1, ok1,
                      client[c2].est, a2, ok2, gap)
       = SpendAfterBoth(client[c1].tenant, client[c2].est, a2, ok2,
                        client[c1].est, a1, ok1, gap)

\* C23 as claimed: for two requests of one tenant that each hold a
\* reservation, the tenant's in-window spend after both settlement calls
\* (AdjustCost or RefundEstimate) is the same whichever of the two the store
\* executes first.
C23_SettlementsCommute ==
    \A c1, c2 \in Clients :
       BothReserved(c1, c2) =>
          \A gap \in SettleGaps : SameInBothOrders(c1, c2, gap)

\* C23 amended: the in-window spend after both settlement calls is the same
\* in both orders when the minute of the earlier call is still inside the
\* window at the later call; each delta goes to the bucket of the minute in
\* which its call runs.
C23_CommuteInsideWindow ==
    \A c1, c2 \in Clients :
       BothReserved(c1, c2) =>
          \A gap \in SettleGaps :
             MinuteBucket(now) >= MinuteBucket(now + gap) - WindowSeconds
                => SameInBothOrders(c1, c2, gap)

\* C23 witness: two requests of one tenant hold reservations the store
\* added in different minutes, and the clock stands where a call an hour
\* later still has the present minute in its window
C23_Witness ==
    \E c1, c2 \in Clients :
       /\ BothReserved(c1, c2)
       /\ ~client[c1].scriptErr /\ ~client[c2].scriptErr
       /\ Cardinality(DOMAIN spend[client[c1].tenant]) = 2
       /\ MinuteBucket(now) >= MinuteBucket(now + 3630) - WindowSeconds

\* ------------------------------------- properties of the response body
\* C24: what the client is given of a response body, streamed or not, is
\* what was read from the upstream: the same bytes in the same order, and
\* the same end-of-stream or error result.
C24_BytesUnchanged ==
    \A r \in Requests : req[r].out = req[r].got

\* C25: once the streaming reader is finalized (through EOF or through
\* Close), a later Read that returns EOF and a later Close schedule nothing,
\* in any order and however often they are repeated.
C25_FinalizedSchedulesNothing ==
    [][\A r \in Requests :
         (reader[r].finalized /\ hist'[r].op \in {"ReadEOF", "Close"})
            => tasks' = tasks /\ reader'[r] = reader[r]]_vars

\* C25 witness: the reader of a stream with a usage chunk was finalized,
\* Read and Close were called again afterwards, and one task is scheduled
C25_Witness ==
    \E r \in Requests :
       /\ reader[r].finalized /\ reader[r].found
       /\ hist[r].late = MaxFrames /\ hist[r].op = "Close"
       /\ BagCardinality(tasks) = 1

\* the line ends with a frame delimiter and holds no other one
WholeFrame(line) ==
    LET n == Len(line)
        i1 == IndexOf(line, <<LF, LF>>)
        i2 == IndexOf(line, <<CR, LF, CR, LF>>)
    IN \/ i1 > 0 /\ i1 = n - 1 /\ i2 = 0
       \/ i2 > 0 /\ i2 = n - 3 /\ i1 = 0

\* C27: in a Read before EOF and Close, every line handed to parseSSELine is
\* the bytes up to and including one complete frame delimiter (two line
\* feeds, or CR LF CR LF), and the bytes left in the buffer hold no
\* complete delimiter.
C27_FramesOnDelimiters ==
    \A r \in Requests :
       hist[r].op = "Read" =>
          /\ \A i \in DOMAIN hist[r].lines : WholeFrame(hist[r].lines[i])
          /\ IndexOf(reader[r].buffer, <<LF, LF>>) = 0
          /\ IndexOf(reader[r].buffer, <<CR, LF, CR, LF>>) = 0

\* ----------------------------------- properties of a stream's finalization
\* C26: the accounting call a stream's finalization makes is AdjustCost with
\* actual = cost(largest input_tokens seen, largest output_tokens seen,
\* pricing) when any chunk carried a usage report; otherwise RefundEstimate
\* when any chunk carried an "error" field; otherwise no call at all. This
\* is said of every task finalizeCost hands to async.Run, whichever of
\* [DONE], EOF and Close started it, at the moment the task makes its call.
C26_FinalizationCall ==
    [][\A task \in BagToSet(tasks) :
         (task.kind = "stream" /\ RunTask(task, TRUE)) =>
            LET r == task.req
                seen == hist[r].seen
                actual == CalculateCost(seen.InputTokens, seen.OutputTokens, Pricing)
            IN IF seen.Found
               THEN /\ hist'[r].nAdjust = hist[r].nAdjust + 1
                    /\ hist'[r].nRefund = hist[r].nRefund
                    /\ hist'[r].net = hist[r].net + actual - task.estimate
               ELSE IF seen.Error
               THEN /\ hist'[r].nRefund = hist[r].nRefund + 1
                    /\ hist'[r].nAdjust = hist[r].nAdjust
                    /\ hist'[r].net = hist[r].net - task.estimate
               ELSE hist' = hist /\ spend' = spend /\ expireAt' = expireAt]_vars

\* ------------------------------------------ properties of the async runner
\* C28: at every moment at most AsyncLimit of the functions handed to Run
\* are executing, however many Run calls were made and whenever; QueueDepth
\* is always between 0 and AsyncLimit.
C28_CeilingHolds ==
    /\ Cardinality({g \in Funcs : runner.go[g] = "running"}) <= AsyncLimit
    /\ QueueDepth >= 0 /\ QueueDepth <= AsyncLimit

\* C28 witness: AsyncLimit functions are executing and one more goroutine
\* waits for a slot
C28_Witness ==
    /\ Cardinality({g \in Funcs : runner.go[g] = "running"}) = AsyncLimit
    /\ \E g \in Funcs : runner.go[g] = "spawned"

\* the next Run call: functions are numbered in the order of the calls
NextRun(g) == runner.go[g] = "none" /\ \A h \in Funcs : h < g => runner.go[h] # "none"

\* C29: Run returns at once whatever the state of the semaphore (the call is
\* never blocked or refused), and every function handed to Run is called
\* exactly once, also when AsyncLimit functions were executing at the time
\* of the call, given that every function returns.
C29_EveryRunExecutes ==
    /\ [](\A g \in Funcs : NextRun(g) => ENABLED Run(g))
    /\ [](\A g \in Funcs :
            /\ runner.calls[g] <= 1
            /\ runner.go[g] \in {"running", "returned", "released", "done"}
                  => runner.calls[g] = 1)
    /\ \A g \in Funcs :
          (runner.go[g] = "spawned") ~> (runner.go[g] = "done" /\ runner.calls[g] = 1)

\* C29 witness: a function handed to Run while AsyncLimit functions held
\* the semaphore has been called once and its goroutine has ended
C29_Witness ==
    \E g \in runner.queued : runner.go[g] = "done" /\ runner.calls[g] = 1

\* C30: Wait returns 0 only when every function handed to Run before the
\* call has returned, and when the deadline comes first it returns the
\* number of those functions that have not returned.
C30_WaitCountsUnfinished ==
    /\ runner.wait.pc = "returned" => runner.wait.unfinished = 0
    /\ runner.wait.pc = "expired" => runner.wait.result = runner.wait.unfinished

\* --------------------------------------------- properties of the shutdown
\* C31: on shutdown the listener is closed first, the requests in flight
\* are waited for until none is left or the 30 s have passed, only then is
\* the runner drained, and the process does not end before the drain has.
C31_ShutdownOrder ==
    /\ runner.wait.pc # "idle" =>
          /\ ~server.accepting
          /\ ActiveConns = {} \/ server.ctxDone
    /\ server.exited => runner.wait.pc \in {"returned", "expired"}

\* ------------------------------------- properties of the rate-limit headers
\* C32: once the rate-limit middleware has handled a request, the three
\* X-RateLimit headers are set on its response exactly when the store's
\* script returned a decision for it; on a pass-through and when the
\* reserve call failed open none of them is set.
C32_HeadersIffDecision ==
    \A r \in DOMAIN req :
       req[r].pc # "new" =>
          (req[r].headers <=> (req[r].tenant # NoTenant /\ ~hist[r].reserveErr))

\* ------------------------------------------ properties of the pass-through
\* the request is not a POST or has no tenant header
Ungoverned(rq) == rq.method # "POST" \/ rq.tenant = NoTenant

\* C33: a request that is not a POST, or has no tenant header, passes both
\* middlewares ungoverned: the store is not called (it stays as it was, no
\* result, no failed call, no accounting task), the sidecar is not called,
\* no reservation is attached, no rate-limit header is set, and the body
\* and its length go on as they came.
C33_UngovernedPassesThrough ==
    \A r \in DOMAIN req :
       Ungoverned(req[r]) =>
          /\ \A tn \in Tenants : spend[tn] = EmptyHash /\ expireAt[tn] = NoKey
          /\ req[r].result = NoResult
          /\ ~hist[r].reserveErr /\ ~hist[r].added /\ ~hist[r].storeFail
          /\ hist[r].nAdjust = 0 /\ hist[r].nRefund = 0
          /\ tasks = EmptyBag
          /\ req[r].loop \in {"pending", "skipped"}
          /\ req[r].ctxTenant = "" /\ req[r].ctxEstimate = 0
          /\ ~req[r].headers
          /\ req[r].pc # "denied"
          /\ req[r].reqBytes = req[r].origBytes
          /\ req[r].contentLength = Len(req[r].origBytes)
          /\ req[r].clHeader = Itoa(Len(req[r].origBytes))

\* a GET that carries a tenant header has been answered by the upstream
C33_Witness ==
    \E r \in DOMAIN req :
       /\ req[r].method = "GET" /\ req[r].tenant # NoTenant
       /\ req[r].pc = "done" /\ req[r].loop = "skipped"
       /\ hist[r].upstream

\* ------------------------------------------------ properties of the hint
\* the loop middleware has rewritten the body of the request
HintInjected(rq) == rq.loop = "loop" /\ rq.reqBody = "hinted"

C35_PruneKeepsOtherTenants ==
    \A d \in vstore.deleted : d.tenant = d.by

\* -------------------------------------------- properties of the window sum
\* C36: with the tenants' limits fixed and no settlement above its
\* estimate, the sum of a tenant's buckets inside the window never exceeds
\* the tenant's limit.
C36_WindowSumWithinLimit ==
    \A tn \in Tenants : GetSpend(tn) <= LimitOf(tn)

\* ------------------------------------------ properties of the splitting
\* C37: the accounting outcome of a stream (usage found or not, the
\* finalizeCost calls made) depends on the bytes alone: however they were
\* split across Read calls, the outcome at the end of the stream is the one
\* of the same bytes arriving in a single Read.
C37_SplitIndependent ==
    \A r \in DOMAIN req :
       req[r].pc = "eof" =>
          Outcome(reader[r], hist[r].calls) = WholeOutcome(req[r].stream)

\* ------------------------------------- properties of the scheduled task
\* what a task scheduled by finalizeCost would do if it ran on the reader's
\* fields as they are in rd
StreamCharge(rd) ==
    [call |-> IF rd.usage.Found THEN "adjust"
              ELSE IF rd.hasError THEN "refund" ELSE "none",
     actual |-> CalculateCost(rd.usage.InputTokens, rd.usage.OutputTokens, Pricing)]

\* C38: what a task scheduled by the streaming reader charges is settled
\* when it is scheduled: no later step changes it while the task waits, and
\* the task runs only when the reading path has stopped writing the fields
\* it reads (the reader is finalized).
C38_TaskChargeSettled ==
    [][\A task \in BagToSet(tasks) :
         task.kind = "stream" =>
            /\ BagIn(task, tasks') =>
                  StreamCharge(reader'[task.req]) = StreamCharge(reader[task.req])
            /\ (\E ok \in BOOLEAN : RunTask(task, ok)) =>
                  reader[task.req].finalized]_vars

\* ------------------------------------- properties of the tenants' keys
\* fmt.Sprintf("spend:%s", tenantID) and fmt.Sprintf("limit:%s", tenantID),
\* as bytes
SpendKeyOf(tenantID) == <<115, 112, 101, 110, 100, 58>> \o tenantID
LimitKeyOf(tenantID) == <<108, 105, 109, 105, 116, 58>> \o tenantID

\* the step in which caller c's AdjustCost or RefundEstimate call is made
SettleStep(c) == client[c].pc = "reserved" /\ client'[c].pc = "settled"

\* C39: the calls made for one tenant leave every other tenant alone. The
\* keys of two different tenant identifiers are different keys; a
\* CheckAndReserve, AdjustCost or RefundEstimate call for a tenant leaves
\* the buckets, the expiry and the limit of every other tenant as they
\* were; and a decision is the one the script computes from the called
\* tenant's own buckets and limit, so it is what it would be had the calls
\* for other tenants not been made.
C39_TenantsIsolated ==
    /\ [](\A t1, t2 \in StoreTenants :
             t1 # t2 => {SpendKeyOf(t1), LimitKeyOf(t1)}
                           \cap {SpendKeyOf(t2), LimitKeyOf(t2)} = {})
    /\ [][\A c \in Clients :
            (ReserveStep(c) \/ SettleStep(c)) =>
               LET tn == IF ReserveStep(c) THEN client'[c].tenant
                         ELSE client[c].tenant
               IN /\ \A o \in Tenants \ {tn} :
                        /\ spend'[o] = spend[o]
                        /\ expireAt'[o] = expireAt[o]
                        /\ limitKey'[o] = limitKey[o]
                  /\ (ReserveStep(c) /\ ~client'[c].scriptErr) =>
                        LET d == CheckLimitScript(spend[tn], expireAt[tn],
                                                  limitKey[tn], now,
                                                  client'[c].est, DefaultLimit)
                        IN /\ client'[c].result.Allowed = d.allowed
                           /\ client'[c].result.CurrentSpend = d.currentSpend
                           /\ client'[c].result.Limit = d.limit
                           /\ client'[c].result.Remaining = d.remaining]_vars

\* tenant a holds a reservation of 3 and tenant b, whose limit is 2, was
\* then allowed 2: a's spend did not count against b
C39_Witness ==
    \E c1, c2 \in Clients :
       /\ c1 < c2
       /\ client[c1].pc = "reserved" /\ client[c1].tenant = "a"
       /\ client[c1].est = 3 /\ ~client[c1].scriptErr
       /\ client[c2].pc = "reserved" /\ client[c2].tenant = "b"
       /\ client[c2].est = 2 /\ ~client[c2].scriptErr
       /\ client[c2].result.CurrentSpend = 0
       /\ GetSpend("a") = 3 /\ GetSpend("b") = 2

====
